---- MODULE Spec2Model ----
(***************************************************************************)
(* FluxoNext: the finance store (hooks/useFinance) and its value           *)
(* resolution helpers.                                                     *)
(*                                                                         *)
(* Encodings                                                               *)
(*   - a JS string holding a month ("YYYY-MM") is the sequence of its      *)
(*     UTF-16 code units; the empty sequence is both "" and undefined      *)
(*     (every read of such a field in the source is a truthiness test);    *)
(*   - a JS number is a reduced fraction [n, d]; d = 0 encodes Infinity    *)
(*     (n = 1) and NaN (n = 0);                                            *)
(*   - an optional object field is a sequence: << >> is undefined and      *)
(*     <<v>> is the value v; a key of a Partial<> is a sequence the same   *)
(*     way (<< >> is "key absent"), so <<<< >>>> is a key that is present  *)
(*     and holds undefined;                                                *)
(*   - a uuid is a positive integer that no live record uses (uuidv4 is    *)
(*     fresh); 0 is the undefined originalId;                              *)
(*   - an optional valueHistory that is undefined is the empty sequence    *)
(*     (every read in the source is `valueHistory || []` or tests length). *)
(*                                                                         *)
(* State                                                                   *)
(*   incomes, expenses  the arrays of the hook (useState);                 *)
(*   last               the call last made on the incomes or on a value    *)
(*                      history, with the arguments of a push;             *)
(*   probe              the last read (value resolution, month arithmetic) *)
(*                      and what it returned;                              *)
(*   cards              the credit cards of the hook;                      *)
(*   cardPayments       the paid marks of the (card, month) pairs;         *)
(*   renderedPayments   the cardPayments the handlers of the current       *)
(*                      render closed over;                                *)
(*   expenseCategories  the expense categories of the hook;                *)
(*   user               a session is open (supabase auth);                 *)
(*   clock              the time Date.now() reads;                         *)
(*   storage            localStorage: the saved copy, its lastUpdated and  *)
(*                      the migration flag;                                *)
(*   cloud              the rows of the database;                          *)
(*   tasks              the timers and requests in flight;                 *)
(*   isSaving           the saving indicator of the provider.              *)
(* In the specifications of the store the session is a local one (user is  *)
(* null): the supabase write guarded by `if (user)` at the end of each     *)
(* handler is not taken.  The specifications of the cloud side open one.   *)
(***************************************************************************)
EXTENDS Integers, Sequences, FiniteSets, TLC

VARIABLES incomes, expenses, last, probe, cards, cardPayments, renderedPayments, expenseCategories,
          user, clock, storage, cloud, tasks, isSaving

\* the cloud side: session, time, localStorage, the remote rows, the
\* asynchronous work in flight and the saving indicator
remote == <<user, clock, storage, cloud, tasks, isSaving>>

vars == <<incomes, expenses, last, probe, cards, cardPayments, renderedPayments,
          expenseCategories, remote>>

(***************************************************************************)
(* Bounds of the model.                                                    *)
(***************************************************************************)
FirstYear == 2024
FirstMonth == 11
MonthWindow == 3
MaxHistory == 2
MaxIncomes == 1
MaxExpenses == 3
MaxInstallments == 3
MaxDuration == 2
MaxValue == 2

(***************************************************************************)
(* Strings and dates.                                                      *)
(***************************************************************************)
Digit(k) == 48 + k

Hyphen == 45

\* date-fns format(date, 'yyyy-MM'): zero-padded 4-digit year, '-', 2-digit month
Format(date) ==
  << Digit((date.y \div 1000) % 10), Digit((date.y \div 100) % 10),
     Digit((date.y \div 10) % 10), Digit(date.y % 10), Hyphen,
     Digit((date.m \div 10) % 10), Digit(date.m % 10) >>

\* date-fns parseISO(`${month}-01`): the first day of the month, local time
ParseISO(str) ==
  [ y |-> (str[1] - 48) * 1000 + (str[2] - 48) * 100 + (str[3] - 48) * 10 + (str[4] - 48),
    m |-> (str[6] - 48) * 10 + (str[7] - 48) ]

AddMonthsNoCarry(date, amount) == [ y |-> date.y, m |-> ((date.m - 1 + amount) % 12) + 1 ]

\* date-fns addMonths on a first-of-month date: Date.setMonth(month + amount)
\* with the overflow carried into the year
AddMonths(date, amount) ==
  LET t == (date.m - 1) + amount
  IN  [ y |-> date.y + (t \div 12), m |-> (t % 12) + 1 ]

\* JS relational comparison of two strings: -1, 0, 1 by UTF-16 code units
RECURSIVE StrCmp(_, _)
StrCmp(a, b) ==
  IF a = << >> /\ b = << >> THEN 0
  ELSE IF a = << >> THEN -1
  ELSE IF b = << >> THEN 1
  ELSE IF Head(a) < Head(b) THEN -1
  ELSE IF Head(a) > Head(b) THEN 1
  ELSE StrCmp(Tail(a), Tail(b))

StrLeq(a, b) == StrCmp(a, b) <= 0

StrGeq(a, b) == StrCmp(a, b) >= 0

\* String.prototype.localeCompare on strings of digits and '-'
LocaleCompare(a, b) == StrCmp(a, b)

(***************************************************************************)
(* Numbers.                                                                *)
(***************************************************************************)
Num(k) == [n |-> k, d |-> 1]

Zero == Num(0)

Infinity == [n |-> 1, d |-> 0]

NaN == [n |-> 0, d |-> 0]

RECURSIVE Gcd(_, _)
Gcd(a, b) == IF b = 0 THEN a ELSE Gcd(b, a % b)

\* JS a / b on non-negative operands
Div(a, b) ==
  IF a.d = 0 \/ b.d = 0 THEN NaN
  ELSE IF b.n = 0 THEN (IF a.n = 0 THEN NaN ELSE Infinity)
  ELSE LET p == a.n * b.d
           q == a.d * b.n
           g == Gcd(p, q)
       IN  IF p = 0 THEN Zero ELSE [n |-> p \div g, d |-> q \div g]

Abs(k) == IF k < 0 THEN -k ELSE k

\* JS a + b; -Infinity is [n |-> -1, d |-> 0]
Add(a, b) ==
  IF a = NaN \/ b = NaN THEN NaN
  ELSE IF a.d = 0 /\ b.d = 0 THEN (IF a = b THEN a ELSE NaN)
  ELSE IF a.d = 0 THEN a
  ELSE IF b.d = 0 THEN b
  ELSE LET p == a.n * b.d + b.n * a.d
           q == a.d * b.d
           g == Gcd(Abs(p), q)
       IN  IF p = 0 THEN Zero ELSE [n |-> p \div g, d |-> q \div g]

\* JS a - b
Sub(a, b) == Add(a, [n |-> -b.n, d |-> b.d])

\* JS a > 0 and a > b (false on NaN)
Positive(a) == a.n > 0

Greater(a, b) == Positive(Sub(a, b))

\* JS truthiness of a number: 0 and NaN are falsy
Truthy(a) == a.n # 0

(***************************************************************************)
(* Input domains.                                                          *)
(***************************************************************************)
\* the month strings of MonthWindow consecutive months from FirstYear-FirstMonth
Months == { Format(AddMonths([y |-> FirstYear, m |-> FirstMonth], k)) : k \in 0..(MonthWindow - 1) }

Values == { Num(k) : k \in 1..MaxValue }

Titles == {"a", "b"}

CategoryIds == {"c1", "c2"}

PaymentMethods == {"cash", "card-1"}

Undefined == << >>

(***************************************************************************)
(* Fixed-value history ledger.                                             *)
(***************************************************************************)
HistoryItem(monthYear, value, paymentMethod) ==
  [monthYear |-> monthYear, value |-> value, paymentMethod |-> paymentMethod]

\* Array.prototype.sort((a, b) => a.monthYear.localeCompare(b.monthYear)):
\* a stable ascending sort
RECURSIVE InsertAsc(_, _)
InsertAsc(sorted, x) ==
  IF sorted = << >> THEN <<x>>
  ELSE IF LocaleCompare(x.monthYear, Head(sorted).monthYear) < 0 THEN <<x>> \o sorted
  ELSE <<Head(sorted)>> \o InsertAsc(Tail(sorted), x)

RECURSIVE SortAscFrom(_, _)
SortAscFrom(sorted, rest) ==
  IF rest = << >> THEN sorted ELSE SortAscFrom(InsertAsc(sorted, Head(rest)), Tail(rest))

SortAscUnsorted(h) == h

SortAsc(h) == SortAscFrom(<< >>, h)

\* Array.prototype.sort((a, b) => b.monthYear.localeCompare(a.monthYear)):
\* a stable descending sort
RECURSIVE InsertDesc(_, _)
InsertDesc(sorted, x) ==
  IF sorted = << >> THEN <<x>>
  ELSE IF LocaleCompare(Head(sorted).monthYear, x.monthYear) < 0 THEN <<x>> \o sorted
  ELSE <<Head(sorted)>> \o InsertDesc(Tail(sorted), x)

RECURSIVE SortDescFrom(_, _)
SortDescFrom(sorted, rest) ==
  IF rest = << >> THEN sorted ELSE SortDescFrom(InsertDesc(sorted, Head(rest)), Tail(rest))

SortDescUnsorted(h) == h

SortDesc(h) == SortDescFrom(<< >>, h)

\* acc.findIndex(h => h.monthYear === monthYear), 0 when there is none
FindIndex(acc, monthYear) ==
  IF \E k \in 1..Len(acc) : acc[k].monthYear = monthYear
  THEN CHOOSE k \in 1..Len(acc) :
         /\ acc[k].monthYear = monthYear
         /\ \A j \in 1..(k - 1) : acc[j].monthYear # monthYear
  ELSE 0

UniqueKeepAll(acc, rest) == acc \o rest

RECURSIVE UniqueKeepFirst(_, _)
UniqueKeepFirst(acc, rest) ==
  IF rest = << >> THEN acc
  ELSE UniqueKeepFirst(IF FindIndex(acc, Head(rest).monthYear) > 0 THEN acc ELSE Append(acc, Head(rest)),
                       Tail(rest))

\* newHistory.reduce((acc, curr) => { idx = findIndex; if (idx >= 0) acc[idx] = curr; else acc.push(curr) }, [])
RECURSIVE UniqueFrom(_, _)
UniqueFrom(acc, rest) ==
  IF rest = << >> THEN acc
  ELSE LET curr == Head(rest)
           idx == FindIndex(acc, curr.monthYear)
       IN  UniqueFrom(IF idx > 0 THEN [acc EXCEPT ![idx] = curr] ELSE Append(acc, curr), Tail(rest))

\* the ledger write of updateFixedIncomeValue / updateFixedExpenseValue:
\* append, sort ascending, collapse the entries of one month to the last one
PushHistoryEntry(history, item) == UniqueFrom(<< >>, SortAsc(Append(history, item)))

(***************************************************************************)
(* Value resolution.                                                       *)
(***************************************************************************)
\* history.filter(h => h.monthYear <= monthYear)
AtOrBefore(history, monthYear) ==
  SelectSeq(history, LAMBDA h : StrLeq(h.monthYear, monthYear))

\* the end month of a temporary income:
EndMonthExclusive(start, durationMonths) == Format(AddMonths(ParseISO(start), durationMonths))

\* format(addMonths(parseISO(`${start}-01`), durationMonths - 1), 'yyyy-MM')
EndMonth(start, durationMonths) == Format(AddMonths(ParseISO(start), durationMonths - 1))

getIncomeValueForMonth(income, monthYear) ==
  IF income.type = "temporary"
  THEN IF income.startMonth = << >> \/ income.durationMonths = 0 THEN Zero
       ELSE IF /\ StrGeq(monthYear, income.startMonth)
               /\ StrLeq(monthYear, EndMonth(income.startMonth, income.durationMonths))
            THEN (IF income.amount # << >> /\ Truthy(income.amount[1]) THEN income.amount[1] ELSE Zero)
            ELSE Zero
  ELSE IF Len(income.valueHistory) = 0 THEN Zero
       ELSE LET applicable == SortDesc(AtOrBefore(income.valueHistory, monthYear))
            IN  IF applicable # << >> THEN applicable[1].value
                ELSE income.valueHistory[1].value

getExpenseValueForMonthFrom(expense, monthYear) ==
  IF expense.type = "fixed"
  THEN [value |-> Zero, paymentMethod |-> expense.paymentMethod]
  ELSE IF StrLeq(expense.billingMonth, monthYear)
       THEN [value |-> expense.installmentValue, paymentMethod |-> expense.paymentMethod]
       ELSE [value |-> Zero, paymentMethod |-> expense.paymentMethod]

\* hooks/useFinance.tsx (the same in useFinance.ts and in the realtime provider)
getExpenseValueForMonth(expense, monthYear) ==
  IF expense.type = "fixed"
  THEN IF Len(expense.valueHistory) = 0
       THEN [value |-> Zero, paymentMethod |-> expense.paymentMethod]
       ELSE LET applicable == SortDesc(AtOrBefore(expense.valueHistory, monthYear))
                chosen == IF applicable # << >> THEN applicable[1] ELSE expense.valueHistory[1]
            IN  [ value |-> chosen.value,
                  paymentMethod |-> IF chosen.paymentMethod # "" THEN chosen.paymentMethod
                                    ELSE expense.paymentMethod ]
  ELSE IF expense.billingMonth = monthYear
       THEN [value |-> expense.installmentValue, paymentMethod |-> expense.paymentMethod]
       ELSE [value |-> Zero, paymentMethod |-> expense.paymentMethod]

\* the getter of the provider that maps snake_case rows (no earliest-entry branch)
getExpenseValueForMonthMapped(expense, monthYear) ==
  IF expense.type = "fixed"
  THEN LET applicable == SortDesc(AtOrBefore(expense.valueHistory, monthYear))
       IN  IF applicable # << >>
           THEN [ value |-> applicable[1].value,
                  paymentMethod |-> IF applicable[1].paymentMethod # "" THEN applicable[1].paymentMethod
                                    ELSE expense.paymentMethod ]
           ELSE [value |-> Zero, paymentMethod |-> expense.paymentMethod]
  ELSE IF expense.billingMonth = monthYear
       THEN [value |-> expense.installmentValue, paymentMethod |-> expense.paymentMethod]
       ELSE [value |-> Zero, paymentMethod |-> expense.paymentMethod]

(***************************************************************************)
(* Incomes of the store (hooks/useFinance.tsx).                            *)
(*                                                                         *)
(* A handler reads the array its render closed over (seen) and writes      *)
(* through a functional updater that receives the committed array (prev).  *)
(***************************************************************************)
Income(id, title, categoryId, type, paymentMethod, valueHistory, amount, startMonth, durationMonths) ==
  [ id |-> id, title |-> title, categoryId |-> categoryId, type |-> type,
    paymentMethod |-> paymentMethod, valueHistory |-> valueHistory,
    amount |-> amount, startMonth |-> startMonth, durationMonths |-> durationMonths ]

\* array.find(e => e.id === id): << >> when there is none
Find(arr, id) ==
  IF \E k \in 1..Len(arr) : arr[k].id = id
  THEN << arr[CHOOSE k \in 1..Len(arr) : arr[k].id = id /\ \A j \in 1..(k - 1) : arr[j].id # id] >>
  ELSE << >>

\* { ...i, ...updates } for the keys the callers of updateIncome pass
MergeIncome(i, updates) ==
  [ i EXCEPT !.title = IF updates.title # << >> THEN updates.title[1] ELSE @,
             !.categoryId = IF updates.categoryId # << >> THEN updates.categoryId[1] ELSE @,
             !.amount = IF updates.amount # << >> THEN updates.amount[1] ELSE @,
             !.paymentMethod = IF updates.paymentMethod # << >> THEN updates.paymentMethod[1] ELSE @ ]

addIncomeArr(prev, income, id) == Append(prev, [income EXCEPT !.id = id])

updateIncomeArr(prev, id, updates) ==
  [k \in 1..Len(prev) |-> IF prev[k].id = id THEN MergeIncome(prev[k], updates) ELSE prev[k]]

deleteIncomeArr(prev, id) == SelectSeq(prev, LAMBDA i : i.id # id)

updateFixedIncomeValueArr(seen, prev, id, monthYear, newValue, paymentMethod) ==
  LET income == Find(seen, id)
  IN  IF income = << >> \/ income[1].type # "fixed" THEN prev
      ELSE LET uniqueHistory ==
                 PushHistoryEntry(income[1].valueHistory, HistoryItem(monthYear, newValue, paymentMethod))
           IN  [k \in 1..Len(prev) |->
                  IF prev[k].id = id THEN [prev[k] EXCEPT !.valueHistory = uniqueHistory] ELSE prev[k]]

(***************************************************************************)
(* Expenses of the store (hooks/useFinance.tsx).  The fields purchaseDate, *)
(* isInstallment, isPaid and createdAt are carried along by every spread   *)
(* and read by no operation below; the records leave them out.             *)
(***************************************************************************)
Expense(id, title, categoryId, type, billingMonth, totalValue, installmentValue, installments, paymentMethod, originalId, valueHistory) ==
  [ id |-> id, title |-> title, categoryId |-> categoryId, type |-> type,
    billingMonth |-> billingMonth, totalValue |-> totalValue,
    installmentValue |-> installmentValue, installments |-> installments,
    paymentMethod |-> paymentMethod, originalId |-> originalId,
    valueHistory |-> valueHistory ]

Installments(current, total) == [current |-> current, total |-> total]

NoExpenseUpdates ==
  [ title |-> << >>, categoryId |-> << >>, totalValue |-> << >>,
    installmentValue |-> << >>, paymentMethod |-> << >>, installments |-> << >> ]

\* { ...e, ...updates }: every key that updates carries replaces the field,
\* also when it carries undefined
MergeExpense(e, updates) ==
  [ e EXCEPT !.title = IF updates.title # << >> THEN updates.title[1] ELSE @,
             !.categoryId = IF updates.categoryId # << >> THEN updates.categoryId[1] ELSE @,
             !.totalValue = IF updates.totalValue # << >> THEN updates.totalValue[1] ELSE @,
             !.installmentValue = IF updates.installmentValue # << >> THEN updates.installmentValue[1] ELSE @,
             !.paymentMethod = IF updates.paymentMethod # << >> THEN updates.paymentMethod[1] ELSE @,
             !.installments = IF updates.installments # << >> THEN updates.installments[1] ELSE @ ]

\* updates.installments is an object (the key is present and not undefined)
HasInstallments(updates) == updates.installments # << >> /\ updates.installments[1] # << >>

addExpenseArr(prev, expense, id) == Append(prev, [expense EXCEPT !.id = id])

\* the billing month of installment i (from 0):
\* format(addMonths(parseISO(`${startBillingMonth}-01`), i), 'yyyy-MM')
BillingMonth(startBillingMonth, i) == Format(AddMonths(ParseISO(startBillingMonth), i))

\* the loop of addInstallmentExpense; ids[1] is the originalId and
\* ids[i + 2] the id of installment i
ExpandInstallmentsFromZero(baseExpense, startBillingMonth, totalInstallments, ids) ==
  [ k \in 1..totalInstallments |->
      [ baseExpense EXCEPT !.id = ids[k + 1],
                           !.type = "installment",
                           !.billingMonth = BillingMonth(startBillingMonth, k - 1),
                           !.originalId = ids[1],
                           !.installments = << Installments(k - 1, totalInstallments) >> ] ]

ExpandInstallments(baseExpense, startBillingMonth, totalInstallments, ids) ==
  [ k \in 1..totalInstallments |->
      [ baseExpense EXCEPT !.id = ids[k + 1],
                           !.type = "installment",
                           !.billingMonth = BillingMonth(startBillingMonth, k - 1),
                           !.originalId = ids[1],
                           !.installments = << Installments(k, totalInstallments) >> ] ]

addInstallmentExpenseArr(prev, baseExpense, startBillingMonth, totalInstallments, ids) ==
  prev \o ExpandInstallments(baseExpense, startBillingMonth, totalInstallments, ids)

\* expense.installments?.current || 1
CurrentOrOne(e) ==
  IF e.installments # << >> /\ e.installments[1].current # 0 THEN e.installments[1].current ELSE 1

ReprojectKeepTotal(e, updates) ==
  LET recompute == updates.totalValue # << >> \/ HasInstallments(updates)
      totalVal == IF updates.totalValue # << >> THEN updates.totalValue[1] ELSE e.totalValue
      totalInst == IF HasInstallments(updates) THEN Num(updates.installments[1][1].total)
                   ELSE IF e.installments # << >> THEN Num(e.installments[1].total)
                   ELSE Num(1)
  IN  [ MergeExpense(e, updates) EXCEPT
          !.installmentValue = IF recompute THEN Div(totalVal, totalInst) ELSE e.installmentValue,
          !.installments = e.installments ]

\* the record a scoped edit (future, all) writes for the sibling e
Reproject(e, updates) ==
  LET recompute == updates.totalValue # << >> \/ HasInstallments(updates)
      totalVal == IF updates.totalValue # << >> THEN updates.totalValue[1] ELSE e.totalValue
      totalInst == IF HasInstallments(updates) THEN Num(updates.installments[1][1].total)
                   ELSE IF e.installments # << >> THEN Num(e.installments[1].total)
                   ELSE Num(1)
      newInstallmentValue == IF recompute THEN Div(totalVal, totalInst) ELSE e.installmentValue
  IN  [ MergeExpense(e, updates) EXCEPT
          !.installmentValue = newInstallmentValue,
          !.installments =
             IF HasInstallments(updates)
             THEN << Installments(IF e.installments # << >> THEN e.installments[1].current ELSE 0,
                                  updates.installments[1][1].total) >>
             ELSE e.installments ]

\* e.installments && e.installments.current >= currentInstallment
IsFuture(e, currentInstallment) ==
  e.installments # << >> /\ e.installments[1].current >= currentInstallment

updateExpenseArrNoOnly(seen, prev, id, updates, mode) ==
  LET expense == Find(seen, id)
  IN  IF expense = << >> THEN prev
      ELSE IF expense[1].originalId = 0
      THEN [ k \in 1..Len(prev) |->
               IF prev[k].id = id THEN MergeExpense(expense[1], updates) ELSE prev[k] ]
      ELSE [ k \in 1..Len(prev) |->
               IF /\ prev[k].originalId = expense[1].originalId
                  /\ (mode = "all" \/ IsFuture(prev[k], CurrentOrOne(expense[1])))
               THEN Reproject(prev[k], updates)
               ELSE prev[k] ]

updateExpenseArrAllAsFuture(seen, prev, id, updates, mode) ==
  LET expense == Find(seen, id)
  IN  IF expense = << >> THEN prev
      ELSE IF expense[1].originalId = 0 \/ mode = "only"
      THEN [ k \in 1..Len(prev) |->
               IF prev[k].id = id THEN MergeExpense(expense[1], updates) ELSE prev[k] ]
      ELSE [ k \in 1..Len(prev) |->
               IF /\ prev[k].originalId = expense[1].originalId
                  /\ IsFuture(prev[k], CurrentOrOne(expense[1]))
               THEN Reproject(prev[k], updates)
               ELSE prev[k] ]

updateExpenseArr(seen, prev, id, updates, mode) ==
  LET expense == Find(seen, id)
  IN  IF expense = << >> THEN prev
      ELSE IF expense[1].originalId = 0 \/ mode = "only"
      THEN [ k \in 1..Len(prev) |->
               IF prev[k].id = id THEN MergeExpense(expense[1], updates) ELSE prev[k] ]
      ELSE [ k \in 1..Len(prev) |->
               IF /\ prev[k].originalId = expense[1].originalId
                  /\ (mode = "all" \/ IsFuture(prev[k], CurrentOrOne(expense[1])))
               THEN Reproject(prev[k], updates)
               ELSE prev[k] ]

updateFixedExpenseValueArr(seen, prev, id, monthYear, newValue, newPaymentMethod) ==
  LET expense == Find(seen, id)
  IN  IF expense = << >> \/ expense[1].type # "fixed" THEN prev
      ELSE LET uniqueHistory ==
                 PushHistoryEntry(expense[1].valueHistory,
                   HistoryItem(monthYear, newValue,
                     IF newPaymentMethod # "" THEN newPaymentMethod ELSE expense[1].paymentMethod))
           IN  [k \in 1..Len(prev) |->
                  IF prev[k].id = id THEN [prev[k] EXCEPT !.valueHistory = uniqueHistory] ELSE prev[k]]

(***************************************************************************)
(* Fresh identifiers.                                                      *)
(***************************************************************************)
\* the ids and series keys the store holds
UsedIds ==
  { incomes[k].id : k \in 1..Len(incomes) }
  \cup { expenses[k].id : k \in 1..Len(expenses) }
  \cup { expenses[k].originalId : k \in 1..Len(expenses) }

\* uuidv4(): an id that no record of the store carries
uuidv4(taken) == CHOOSE id \in 1..(Cardinality(taken) + 1) : id \notin taken

\* count successive uuidv4() calls
RECURSIVE FreshIds(_, _)
FreshIds(taken, count) ==
  IF count = 0 THEN << >>
  ELSE LET id == uuidv4(taken) IN <<id>> \o FreshIds(taken \cup {id}, count - 1)

(***************************************************************************)
(* Actions on incomes.                                                     *)
(***************************************************************************)
NoIncomeUpdates == [title |-> << >>, categoryId |-> << >>, amount |-> << >>, paymentMethod |-> << >>]

\* Income.handleSubmit: a fixed income starts with a one-entry history,
\* a temporary one with amount, startMonth and durationMonths
NewIncomes ==
  { Income(0, t, "c1", "fixed", "cash", <<HistoryItem(m, Num(1), "cash")>>, << >>, << >>, 0) :
      t \in Titles, m \in Months }
  \cup
  { Income(0, t, "c1", "temporary", "cash", << >>, <<Num(1)>>, Format([y |-> FirstYear, m |-> FirstMonth]), d) :
      t \in Titles, d \in 1..MaxDuration }

\* the call last made on the store: its name and, for a push on a value
\* history, its arguments
NoCall == [op |-> "init", id |-> 0, monthYear |-> << >>, value |-> Zero, paymentMethod |-> ""]

Call(op) == [NoCall EXCEPT !.op = op]

Push(op, id, monthYear, value, paymentMethod) ==
  [op |-> op, id |-> id, monthYear |-> monthYear, value |-> value, paymentMethod |-> paymentMethod]

addIncome(income) ==
  /\ Len(incomes) < MaxIncomes
  /\ incomes' = addIncomeArr(incomes, income, uuidv4(UsedIds))
  /\ last' = Call("addIncome")
  /\ UNCHANGED <<expenses, probe, cards, cardPayments, renderedPayments, expenseCategories, remote>>

updateIncome(id, updates) ==
  /\ incomes' = updateIncomeArr(incomes, id, updates)
  /\ last' = Call("updateIncome")
  /\ UNCHANGED <<expenses, probe, cards, cardPayments, renderedPayments, expenseCategories, remote>>

deleteIncome(id) ==
  /\ incomes' = deleteIncomeArr(incomes, id)
  /\ last' = Call("deleteIncome")
  /\ UNCHANGED <<expenses, probe, cards, cardPayments, renderedPayments, expenseCategories, remote>>

\* the entity id of arr has a history entry for monthYear
HasEntry(arr, id, monthYear) ==
  \E k \in 1..Len(arr) :
    /\ arr[k].id = id
    /\ \E j \in 1..Len(arr[k].valueHistory) : arr[k].valueHistory[j].monthYear = monthYear

\* the entries of all value histories of arr
RECURSIVE Entries(_)
Entries(arr) == IF arr = << >> THEN 0 ELSE Len(Head(arr).valueHistory) + Entries(Tail(arr))

\* guard of the model: a push adds an entry while the histories of arr hold
\* fewer than MaxHistory entries together
HistoryRoom(arr, id, monthYear) == HasEntry(arr, id, monthYear) \/ Entries(arr) < MaxHistory

updateFixedIncomeValue(id, monthYear, newValue, paymentMethod) ==
  /\ HistoryRoom(incomes, id, monthYear)
  /\ incomes' = updateFixedIncomeValueArr(incomes, incomes, id, monthYear, newValue, paymentMethod)
  /\ last' = Push(IF HasEntry(incomes, id, monthYear)
                  THEN "updateFixedIncomeValue/overwrite" ELSE "updateFixedIncomeValue",
                  id, monthYear, newValue, paymentMethod)
  /\ UNCHANGED <<expenses, probe, cards, cardPayments, renderedPayments, expenseCategories, remote>>

\* Income.saveEdit: for a fixed income updateIncome and then
\* updateFixedIncomeValue, both closed over the same render;
\* for a temporary one a single updateIncome
saveEditIncome(id, title, categoryId, newAmount, paymentMethod, currentMonth) ==
  /\ Find(incomes, id) # << >>
  /\ HistoryRoom(incomes, id, currentMonth)
  /\ IF Find(incomes, id)[1].type = "fixed"
     THEN incomes' = updateFixedIncomeValueArr(incomes,
                       updateIncomeArr(incomes, id, [NoIncomeUpdates EXCEPT !.title = <<title>>, !.categoryId = <<categoryId>>]),
                       id, currentMonth, newAmount, paymentMethod)
     ELSE incomes' = updateIncomeArr(incomes, id,
                       [title |-> <<title>>, categoryId |-> <<categoryId>>,
                        amount |-> <<(<<newAmount>>)>>, paymentMethod |-> <<paymentMethod>>])
  /\ last' = Call("saveEditIncome")
  /\ UNCHANGED <<expenses, probe, cards, cardPayments, renderedPayments, expenseCategories, remote>>

IncomeIds == { incomes[k].id : k \in 1..Len(incomes) }

\* probe is for the read side; the store operations leave it alone
NoProbe ==
  [ kind |-> "none", version |-> "", arg |-> << >>, n |-> 0,
    value |-> Zero, paymentMethod |-> "", result |-> << >> ]

\* localStorage before the application has written to it
NoStorage == [data |-> << >>, lastUpdated |-> 0, migrated |-> FALSE]

\* the database of a new account: no legacy row, empty tables
NoCloud == [user_finance |-> << >>, expenses |-> << >>, incomes |-> << >>, failed |-> {}]

InitStore ==
  /\ incomes = << >>
  /\ expenses = << >>
  /\ last = NoCall
  /\ probe = NoProbe
  /\ cards = << >>
  /\ cardPayments = << >>
  /\ renderedPayments = << >>
  /\ expenseCategories = << >>
  /\ user = FALSE
  /\ clock = 0
  /\ storage = NoStorage
  /\ cloud = NoCloud
  /\ tasks = << >>
  /\ isSaving = FALSE

\* the amounts and payment methods the edits push
IncomePushes == { <<Num(1), "cash">>, <<Num(MaxValue), "">> }

NextIncome ==
  \/ \E income \in NewIncomes : addIncome(income)
  \/ \E id \in IncomeIds, t \in Titles :
       updateIncome(id, [NoIncomeUpdates EXCEPT !.title = <<t>>, !.categoryId = <<"c1">>])
  \/ \E id \in IncomeIds : deleteIncome(id)
  \/ \E id \in IncomeIds, m \in Months, push \in IncomePushes :
       updateFixedIncomeValue(id, m, push[1], push[2])
  \/ \E id \in IncomeIds, t \in Titles, m \in Months :
       saveEditIncome(id, t, "c1", Num(1), "cash", m)

SpecIncome == InitStore /\ [][NextIncome]_vars

(***************************************************************************)
(* Actions on expenses.                                                    *)
(***************************************************************************)
\* Number.prototype.toFixed(2) read back with parseFloat
ToFixed2(a) ==
  IF a.d = 0 THEN a
  ELSE LET c == (200 * a.n + a.d) \div (2 * a.d)
           g == Gcd(c, 100)
       IN  IF c = 0 THEN Zero ELSE [n |-> c \div g, d |-> 100 \div g]

\* the billing month the form is opened with
StartMonth == Format([y |-> FirstYear, m |-> FirstMonth])

\* a one-time expense of the first month as the form submits it
NewOneTimes1(title) == Expense(0, title, "c1", "one_time", StartMonth, Num(1), Num(1), << >>, "cash", 0, << >>)

\* Expenses.handleSubmit, add branch: the base of a one-time expense
NewOneTimes ==
  { Expense(0, "a", "c1", "one_time", StartMonth, Num(1), Num(1), << >>, "cash", 0, << >>) }

\* Expenses.handleSubmit, add branch: the base of an installment purchase of
\* count parcels (the form keeps installmentValue at (total / count).toFixed(2))
InstallmentBases(count) ==
  { Expense(0, t, "c1", "one_time", << >>, Num(MaxValue), ToFixed2(Div(Num(MaxValue), Num(count))), << >>, "cash", 0, << >>) :
      t \in Titles }

addExpense(expense) ==
  /\ Len(expenses) < MaxExpenses
  /\ expenses' = addExpenseArr(expenses, expense, uuidv4(UsedIds))
  /\ UNCHANGED <<incomes, last, probe, cards, cardPayments, renderedPayments, expenseCategories, remote>>

addInstallmentExpense(baseExpense, startBillingMonth, totalInstallments) ==
  /\ Len(expenses) + totalInstallments <= MaxExpenses
  /\ expenses' = addInstallmentExpenseArr(expenses, baseExpense, startBillingMonth,
                   totalInstallments, FreshIds(UsedIds, totalInstallments + 1))
  /\ UNCHANGED <<incomes, last, probe, cards, cardPayments, renderedPayments, expenseCategories, remote>>

updateExpense(id, updates, mode) ==
  /\ expenses' = updateExpenseArr(expenses, expenses, id, updates, mode)
  /\ UNCHANGED <<incomes, last, probe, cards, cardPayments, renderedPayments, expenseCategories, remote>>

ExpenseIds == { expenses[k].id : k \in 1..Len(expenses) }

\* Expenses.handleSubmit, update branch: the updates the form builds for the
\* expense exp when "Compra Parcelada?" is ticked (count parcels) or not
FormUpdates(exp, title, totalVal, isInstallment, count) ==
  [ title |-> <<title>>,
    categoryId |-> <<exp.categoryId>>,
    totalValue |-> <<totalVal>>,
    installmentValue |-> << IF isInstallment THEN ToFixed2(Div(totalVal, Num(count))) ELSE totalVal >>,
    paymentMethod |-> <<exp.paymentMethod>>,
    installments |-> << IF isInstallment THEN << Installments(CurrentOrOne(exp), count) >> ELSE << >> >> ]

\* the modes the form offers: the scope modal for a member of a series,
\* the default ("only") for every other expense
Modes(exp) == IF exp.originalId # 0 THEN {"only", "future", "all"} ELSE {"only"}

\* the form as handleEditExpense fills it for exp: totalInstallments is
\* exp.installments?.total || 1
FormCount(exp) ==
  IF exp.installments # << >> /\ exp.installments[1].total # 0 THEN exp.installments[1].total ELSE 1

\* the user retitles exp and leaves "Compra Parcelada?" ticked or unticks it
NextExpense ==
  \/ \E expense \in NewOneTimes : addExpense(expense)
  \/ \E count \in 1..MaxInstallments :
       \E baseExpense \in InstallmentBases(count) : addInstallmentExpense(baseExpense, StartMonth, count)
  \/ \E id \in ExpenseIds, t \in Titles, isInstallment \in BOOLEAN :
       LET exp == Find(expenses, id)[1]
       IN  \E mode \in Modes(exp) :
             updateExpense(id, FormUpdates(exp, t, exp.totalValue, isInstallment, FormCount(exp)), mode)

SpecExpense == InitStore /\ [][NextExpense]_vars

(***************************************************************************)
(* The fixed-value ledgers of incomes and expenses side by side.           *)
(***************************************************************************)
updateFixedExpenseValue(id, monthYear, newValue, newPaymentMethod) ==
  /\ HistoryRoom(expenses, id, monthYear)
  /\ expenses' = updateFixedExpenseValueArr(expenses, expenses, id, monthYear, newValue, newPaymentMethod)
  /\ last' = Push(IF HasEntry(expenses, id, monthYear)
                  THEN "updateFixedExpenseValue/overwrite" ELSE "updateFixedExpenseValue",
                  id, monthYear, newValue, newPaymentMethod)
  /\ UNCHANGED <<incomes, probe, cards, cardPayments, renderedPayments, expenseCategories, remote>>

\* Expenses.handleSubmit, update branch of the fixed tab:
\*   await updateFixedExpenseValue(id, effectiveMonth, totalVal, paymentMethod);
\*   await updateExpense(id, { title, categoryId });
\* both calls are the functions of the render the handler closed over
submitFixedExpense(id, title, effectiveMonth, totalVal, paymentMethod) ==
  /\ Find(expenses, id) # << >>
  /\ Find(expenses, id)[1].type = "fixed"
  /\ HistoryRoom(expenses, id, effectiveMonth)
  /\ expenses' = updateExpenseArr(expenses,
                   updateFixedExpenseValueArr(expenses, expenses, id, effectiveMonth, totalVal, paymentMethod),
                   id,
                   [NoExpenseUpdates EXCEPT !.title = <<title>>,
                                            !.categoryId = <<Find(expenses, id)[1].categoryId>>],
                   "only")
  /\ last' = Call("submitFixedExpense")
  /\ UNCHANGED <<incomes, probe, cards, cardPayments, renderedPayments, expenseCategories, remote>>

\* Income.handleSubmit and Expenses.handleSubmit, add branch of the fixed tab
NewFixedIncomes ==
  { Income(0, "a", "c1", "fixed", "cash", <<HistoryItem(m, v, "cash")>>, << >>, << >>, 0) :
      m \in Months, v \in Values }

NewFixedExpenses ==
  { Expense(0, "a", "c1", "fixed", StartMonth, Num(MaxValue), Num(MaxValue), << >>, "cash", 0,
            <<HistoryItem(m, Num(MaxValue), "cash")>>) : m \in Months }

NextLedger ==
  \/ \E income \in NewFixedIncomes : Len(incomes) < 1 /\ addIncome(income)
  \/ \E id \in IncomeIds, m \in Months, v \in Values : updateFixedIncomeValue(id, m, v, "cash")
  \/ \E expense \in NewFixedExpenses : Len(expenses) < 1 /\ addExpense(expense)
  \/ \E id \in ExpenseIds, m \in Months : updateFixedExpenseValue(id, m, Num(MaxValue), "")
  \/ \E id \in ExpenseIds, m \in Months : submitFixedExpense(id, "b", m, Num(MaxValue), "cash")

SpecLedger == InitStore /\ [][NextLedger]_vars

(***************************************************************************)
(* The scope modal of the expense form: an edit of a member of a series is *)
(* held back until one of the three buttons is pressed.                    *)
(***************************************************************************)
\* onClick of a button of the modal:
\*   updateExpense(installmentEditData.expense.id, installmentEditData.updates, mode)
applyScope(id, updates, mode) ==
  /\ Find(expenses, id) # << >>
  /\ Find(expenses, id)[1].originalId # 0
  /\ expenses' = updateExpenseArr(expenses, expenses, id, updates, mode)
  /\ last' = [Call(mode) EXCEPT !.id = id]
  /\ UNCHANGED <<incomes, probe, cards, cardPayments, renderedPayments, expenseCategories, remote>>

\* <Input label="Nº Parcelas" type="number" min="2">
MinInstallments == 2

\* one purchase in parcels next to one one-time expense; the user retitles a
\* parcel, leaves "Compra Parcelada?" ticked (with the number of parcels as
\* it is or set to the least the field takes) or unticks it, and picks a scope
NextScope ==
  \/ \E expense \in NewOneTimes : expenses = << >> /\ addExpense(expense)
  \/ \E count \in 1..MaxInstallments :
       \E baseExpense \in InstallmentBases(count) :
         /\ baseExpense.title = "a"
         /\ \A k \in 1..Len(expenses) : expenses[k].originalId = 0
         /\ addInstallmentExpense(baseExpense, StartMonth, count)
  \/ \E id \in ExpenseIds, isInstallment \in BOOLEAN, mode \in {"only", "future", "all"} :
       LET exp == Find(expenses, id)[1]
       IN  \E count \in {FormCount(exp), MinInstallments} :
             applyScope(id, FormUpdates(exp, "b", exp.totalValue, isInstallment, count), mode)

SpecScope == InitStore /\ [][NextScope]_vars

(***************************************************************************)
(* The store's own contract on the number of installments: the calls the   *)
(* hook accepts, the count 0 among them.                                   *)
(***************************************************************************)
\* updateExpense(id, { installments: { current, total: count } }, mode)
CountUpdates(exp, count) ==
  [NoExpenseUpdates EXCEPT !.installments = << << Installments(CurrentOrOne(exp), count) >> >>]

NextCount ==
  \/ \E count \in 0..MaxInstallments :
       \E baseExpense \in InstallmentBases(1) :
         /\ baseExpense.title = "a"
         /\ expenses = << >>
         /\ addInstallmentExpense(baseExpense, StartMonth, count)
  \/ \E id \in ExpenseIds, count \in {0, MinInstallments} :
       LET exp == Find(expenses, id)[1]
       IN  \E mode \in Modes(exp) : updateExpense(id, CountUpdates(exp, count), mode)

SpecCount == InitStore /\ [][NextCount]_vars

(***************************************************************************)
(* The paid marks of the card invoices (hooks/useFinance.tsx).  The        *)
(* handler looks the pair up in the cardPayments of the render that made   *)
(* it and writes through an updater on the committed array.                *)
(***************************************************************************)
CardIds == {"card-1", "card-2"}

MaxCardPayments == 3

\* arr.find(p => p.cardId === cardId && p.monthYear === monthYear), as << >> or <<p>>
FindPayment(arr, cardId, monthYear) ==
  LET found == SelectSeq(arr, LAMBDA p : p.cardId = cardId /\ p.monthYear = monthYear)
  IN  IF found = << >> THEN << >> ELSE <<found[1]>>

toggleCardPaidArr(seen, prev, cardId, monthYear) ==
  LET exists == FindPayment(seen, cardId, monthYear)
  IN  IF exists # << >>
      THEN LET newStatus == [exists[1] EXCEPT !.isPaid = ~exists[1].isPaid]
           IN  [ k \in 1..Len(prev) |->
                   IF prev[k].cardId = cardId /\ prev[k].monthYear = monthYear
                   THEN newStatus ELSE prev[k] ]
      ELSE Append(prev, [cardId |-> cardId, monthYear |-> monthYear, isPaid |-> TRUE])

\* Summary: cardPayments.find(...)?.isPaid || false
isPaid(payments, cardId, monthYear) ==
  LET found == FindPayment(payments, cardId, monthYear)
  IN  IF found # << >> THEN found[1].isPaid ELSE FALSE

toggleCardPaid(cardId, monthYear) ==
  /\ Len(toggleCardPaidArr(renderedPayments, cardPayments, cardId, monthYear)) <= MaxCardPayments
  /\ cardPayments' = toggleCardPaidArr(renderedPayments, cardPayments, cardId, monthYear)
  /\ last' = [Call("toggleCardPaid") EXCEPT !.monthYear = monthYear, !.paymentMethod = cardId]
  /\ UNCHANGED <<incomes, expenses, probe, cards, renderedPayments, expenseCategories, remote>>

\* React commits the pending state: the next handlers close over it
Render ==
  /\ renderedPayments # cardPayments
  /\ renderedPayments' = cardPayments
  /\ last' = Call("render")
  /\ UNCHANGED <<incomes, expenses, probe, cards, cardPayments, expenseCategories, remote>>

NextCards ==
  \/ \E cardId \in CardIds, monthYear \in Months : toggleCardPaid(cardId, monthYear)
  \/ Render

SpecCards == InitStore /\ [][NextCards]_vars

(***************************************************************************)
(* Aggregation: the Summary page (components/LoginModal.tsx) and the       *)
(* Dashboard (unnamed/part_001) fold the resolved values of a month.       *)
(***************************************************************************)
Card(id, name) == [id |-> id, name |-> name]

\* arr.reduce((acc, v) => acc + v, 0)
RECURSIVE SumValues(_)
SumValues(values) ==
  IF values = << >> THEN Zero
  ELSE Add(SumValues(SubSeq(values, 1, Len(values) - 1)), values[Len(values)])

ValuesOf(arr) == [k \in 1..Len(arr) |-> arr[k].value]

\* Summary: incomes.reduce((acc, inc) => acc + getIncomeValueForMonth(inc, selectedMonth), 0)
totalIncome(incs, selectedMonth) ==
  SumValues([k \in 1..Len(incs) |-> getIncomeValueForMonth(incs[k], selectedMonth)])

\* Summary: expenses.map(resolve).filter(e => e.currentMonthValue > 0), each
\* entry with the id of its expense, its value and its payment method
monthlyExpenses(exps, selectedMonth) ==
  SelectSeq([ k \in 1..Len(exps) |->
                [ id |-> exps[k].id,
                  value |-> getExpenseValueForMonth(exps[k], selectedMonth).value,
                  paymentMethod |-> getExpenseValueForMonth(exps[k], selectedMonth).paymentMethod ] ],
            LAMBDA e : Positive(e.value))

totalExpenses(exps, selectedMonth) == SumValues(ValuesOf(monthlyExpenses(exps, selectedMonth)))

balance(incs, exps, selectedMonth) == Sub(totalIncome(incs, selectedMonth), totalExpenses(exps, selectedMonth))

\* Summary: the entries of monthlyExpenses listed under a card
cardExpenses(exps, cardId, selectedMonth) ==
  SelectSeq(monthlyExpenses(exps, selectedMonth), LAMBDA e : e.paymentMethod = cardId)

\* Summary: cards.map(card => ({...card, total, isPaid})).filter(c => c.total > 0)
cardTotals(exps, cds, payments, selectedMonth) ==
  SelectSeq([ k \in 1..Len(cds) |->
                [ id |-> cds[k].id, name |-> cds[k].name,
                  value |-> SumValues(ValuesOf(cardExpenses(exps, cds[k].id, selectedMonth))),
                  isPaid |-> isPaid(payments, cds[k].id, selectedMonth) ] ],
            LAMBDA c : Positive(c.value))

\* Summary: monthlyExpenses.filter(e => e.currentMonthPaymentMethod === 'cash')
cashExpenses(exps, selectedMonth) ==
  SelectSeq(monthlyExpenses(exps, selectedMonth), LAMBDA e : e.paymentMethod = "cash")

\* Dashboard.monthlyData: the income and the expense of the entry of a month
monthlyData(incs, exps, monthStr) ==
  [ income |-> SumValues([k \in 1..Len(incs) |-> getIncomeValueForMonth(incs[k], monthStr)]),
    expense |-> SumValues([k \in 1..Len(exps) |-> getExpenseValueForMonth(exps[k], monthStr).value]) ]

\* Dashboard.cardUsageData: the name of the bucket of a payment method
BucketName(cds, paymentMethod) ==
  IF paymentMethod = "cash" THEN "Dinheiro"
  ELSE LET card == SelectSeq(cds, LAMBDA c : c.id = paymentMethod)
       IN  IF card # << >> THEN card[1].name ELSE "Dinheiro"

\* data[name] = (data[name] || 0) + value, keys in insertion order
AddToBucket(data, name, value) ==
  IF \E k \in 1..Len(data) : data[k].name = name
  THEN [k \in 1..Len(data) |-> IF data[k].name = name
                               THEN [data[k] EXCEPT !.value = Add(IF Truthy(@) THEN @ ELSE Zero, value)]
                               ELSE data[k]]
  ELSE Append(data, [name |-> name, value |-> value])

RECURSIVE CardUsage(_, _, _)
CardUsage(exps, cds, selectedMonth) ==
  IF exps = << >> THEN << >>
  ELSE LET data == CardUsage(SubSeq(exps, 1, Len(exps) - 1), cds, selectedMonth)
           r == getExpenseValueForMonth(exps[Len(exps)], selectedMonth)
       IN  IF Positive(r.value) THEN AddToBucket(data, BucketName(cds, r.paymentMethod), r.value)
           ELSE data

\* .sort((a, b) => b.value - a.value): stable, by descending value
RECURSIVE SortByValueDesc(_)
SortByValueDesc(data) ==
  IF data = << >> THEN << >>
  ELSE LET sorted == SortByValueDesc(SubSeq(data, 1, Len(data) - 1))
           x == data[Len(data)]
           ahead == SelectSeq(sorted, LAMBDA y : ~Greater(x.value, y.value))
           behind == SelectSeq(sorted, LAMBDA y : Greater(x.value, y.value))
       IN  ahead \o <<x>> \o behind

cardUsageData(exps, cds, selectedMonth) == SortByValueDesc(CardUsage(exps, cds, selectedMonth))

\* uuidv4() of a card: an id that no card carries and no expense refers to
CardRefs ==
  { cards[k].id : k \in 1..Len(cards) }
  \cup { expenses[k].paymentMethod : k \in 1..Len(expenses) }

addCard(name) ==
  /\ CardIds \ CardRefs # {}
  /\ cards' = Append(cards, Card(CHOOSE id \in CardIds : id \notin CardRefs, name))
  /\ last' = Call("addCard")
  /\ UNCHANGED <<incomes, expenses, probe, cardPayments, renderedPayments, expenseCategories, remote>>

deleteCard(id) ==
  /\ cards' = SelectSeq(cards, LAMBDA c : c.id # id)
  /\ last' = Call("deleteCard")
  /\ UNCHANGED <<incomes, expenses, probe, cardPayments, renderedPayments, expenseCategories, remote>>

\* the payment methods the expense form offers: cash and the cards
OfferedMethods == {"cash"} \cup { cards[k].id : k \in 1..Len(cards) }

\* Expenses.handleSubmit, add branch: one-time expenses of the first two
\* months; the value field takes any number, a negative one too
SummaryExpenses ==
  { Expense(0, "a", "c1", "one_time", m, v, v, << >>, pm, 0, << >>) :
      m \in {StartMonth, EndMonth(StartMonth, 2)}, v \in {Num(-1), Num(MaxValue)}, pm \in OfferedMethods }

SummaryIncomes ==
  { Income(0, "a", "c1", "fixed", "cash", <<HistoryItem(StartMonth, Num(1), "cash")>>, << >>, << >>, 0) }

NextSummary ==
  \/ \E income \in SummaryIncomes : incomes = << >> /\ addIncome(income)
  \/ \E expense \in SummaryExpenses : addExpense(expense)
  \/ addCard("Visa")
  \/ \E k \in 1..Len(cards) : deleteCard(cards[k].id)

SpecSummary == InitStore /\ [][NextSummary]_vars

(***************************************************************************)
(* Categories of the store and the Dashboard's totals by category          *)
(* (unnamed/part_001).                                                     *)
(***************************************************************************)
Category(id, name) == [id |-> id, name |-> name]

CategoryNames == {"Food", "Lazer"}

\* expenseCategories.find(c => c.id === e.categoryId)?.name || 'Outros'
CategoryName(cats, categoryId) ==
  LET found == SelectSeq(cats, LAMBDA c : c.id = categoryId)
  IN  IF found # << >> /\ found[1].name # "" THEN found[1].name ELSE "Outros"

\* Dashboard.categoryData: expenses.forEach(e => { if (value > 0) data[catName] += value })
RECURSIVE categoryData(_, _, _)
categoryData(exps, cats, selectedMonth) ==
  IF exps = << >> THEN << >>
  ELSE LET data == categoryData(SubSeq(exps, 1, Len(exps) - 1), cats, selectedMonth)
           e == exps[Len(exps)]
           value == getExpenseValueForMonth(e, selectedMonth).value
       IN  IF Positive(value) THEN AddToBucket(data, CategoryName(cats, e.categoryId), value)
           ELSE data

\* uuidv4() of a category: an id no category carries and no expense refers to
CategoryRefs ==
  { expenseCategories[k].id : k \in 1..Len(expenseCategories) }
  \cup { expenses[k].categoryId : k \in 1..Len(expenses) }

addCategory(name) ==
  /\ CategoryIds \ CategoryRefs # {}
  /\ expenseCategories' =
       Append(expenseCategories, Category(CHOOSE id \in CategoryIds : id \notin CategoryRefs, name))
  /\ last' = Call("addCategory")
  /\ UNCHANGED <<incomes, expenses, probe, cards, cardPayments, renderedPayments, remote>>

deleteCategory(id) ==
  /\ expenseCategories' = SelectSeq(expenseCategories, LAMBDA c : c.id # id)
  /\ last' = Call("deleteCategory")
  /\ UNCHANGED <<incomes, expenses, probe, cards, cardPayments, renderedPayments, remote>>

\* Expenses.handleSubmit, add branch: one-time expenses of a category the
\* form offers
CategoryExpenses ==
  { Expense(0, "a", c, "one_time", StartMonth, v, v, << >>, "cash", 0, << >>) :
      v \in {Num(1), Num(MaxValue)},
      c \in { expenseCategories[k].id : k \in 1..Len(expenseCategories) } }

NextCategory ==
  \/ \E name \in CategoryNames : addCategory(name)
  \/ \E k \in 1..Len(expenseCategories) : deleteCategory(expenseCategories[k].id)
  \/ \E expense \in CategoryExpenses : addExpense(expense)

SpecCategory == InitStore /\ [][NextCategory]_vars

(***************************************************************************)
(* The hook that keeps one JSON row per user (hooks/useFinance.ts): the    *)
(* copy in localStorage, the user_finance row, the debounced save and      *)
(* syncDataWithCloud.                                                      *)
(***************************************************************************)
MaxClock == 2

Task(kind, flag, payload) == [kind |-> kind, flag |-> flag, payload |-> payload]

WithoutKind(tsks, kind) == SelectSeq(tsks, LAMBDA t : t.kind # kind)

HasKind(tsks, kind) == \E k \in 1..Len(tsks) : tsks[k].kind = kind

\* the data of the hook
FinanceData(incs, exps, cds) == [incomes |-> incs, expenses |-> exps, cards |-> cds]

\* what another device has saved
OtherData ==
  FinanceData(<< >>, << Expense(1, "b", "c1", "one_time", StartMonth, Num(1), Num(1), << >>, "cash", 0, << >>) >>, << >>)

\* the effect on [data, user]: localStorage gets the data stamped with the
\* time of the write; the pending save is cleared and a new one is set
PersistStorage(data, now) == [storage EXCEPT !.data = <<data>>, !.lastUpdated = now]

\* a timer set without clearing the pending one
PersistTimerNoCancel(tsks, data, usr) == Append(tsks, Task("save", usr, <<data>>))

PersistTimer(tsks, data, usr) == Append(WithoutKind(tsks, "save"), Task("save", usr, <<data>>))

\* !localData || (no expenses, no incomes and no cards)
isLocalEmpty(localData) ==
  \/ localData = << >>
  \/ localData[1].expenses = << >> /\ localData[1].incomes = << >> /\ localData[1].cards = << >>

InitSync ==
  /\ incomes = << >>
  /\ expenses = << >>
  /\ last = NoCall
  /\ probe = NoProbe
  /\ cards = << >>
  /\ cardPayments = << >>
  /\ renderedPayments = << >>
  /\ expenseCategories = << >>
  /\ user = FALSE
  /\ clock = 0
  /\ storage = [NoStorage EXCEPT !.data = <<FinanceData(<< >>, << >>, << >>)>>]
  /\ cloud = NoCloud
  /\ tasks = <<Task("save", FALSE, <<FinanceData(<< >>, << >>, << >>)>>)>>
  /\ isSaving = FALSE

Tick ==
  /\ clock < MaxClock
  /\ clock' = clock + 1
  /\ last' = Call("tick")
  /\ UNCHANGED <<incomes, expenses, probe, cards, cardPayments, renderedPayments, expenseCategories,
                 user, storage, cloud, tasks, isSaving>>

\* another device saves its data in the row of the user
OtherDevice ==
  /\ IF cloud.user_finance = << >> THEN TRUE ELSE cloud.user_finance[1].updated_at < clock
  /\ cloud' = [cloud EXCEPT !.user_finance = <<[data |-> OtherData, updated_at |-> clock]>>]
  /\ last' = Call("otherDevice")
  /\ UNCHANGED <<incomes, expenses, probe, cards, cardPayments, renderedPayments, expenseCategories,
                 user, clock, storage, tasks, isSaving>>

\* addExpense of the hook: setData, then the effect on [data, user]
addExpenseData(expense) ==
  /\ Len(expenses) < MaxExpenses
  /\ expenses' = addExpenseArr(expenses, expense, uuidv4(UsedIds))
  /\ storage' = PersistStorage(FinanceData(incomes, expenses', cards), clock)
  /\ tasks' = PersistTimer(tasks, FinanceData(incomes, expenses', cards), user)
  /\ last' = Call("addExpense")
  /\ UNCHANGED <<incomes, probe, cards, cardPayments, renderedPayments, expenseCategories,
                 user, clock, cloud, isSaving>>

\* onAuthStateChange delivers a session: the effect on [user, syncDataWithCloud]
\* starts the automatic sync and the effect on [data, user] runs again
Login ==
  /\ ~user
  /\ user' = TRUE
  /\ storage' = PersistStorage(FinanceData(incomes, expenses, cards), clock)
  /\ tasks' = Append(PersistTimer(tasks, FinanceData(incomes, expenses, cards), TRUE),
                     Task("sync", FALSE, << >>))
  /\ last' = Call("login")
  /\ UNCHANGED <<incomes, expenses, probe, cards, cardPayments, renderedPayments, expenseCategories,
                 clock, cloud, isSaving>>

\* the sync button: syncDataWithCloud(true)
ManualSync ==
  /\ user
  /\ ~HasKind(tasks, "sync")
  /\ tasks' = Append(tasks, Task("sync", TRUE, << >>))
  /\ last' = Call("manualSync")
  /\ UNCHANGED <<incomes, expenses, probe, cards, cardPayments, renderedPayments, expenseCategories,
                 user, clock, storage, cloud, isSaving>>

\* the copy the sync keeps: "cloud" or "local"
TakesCloud(isManual, localEmpty, cloudUpdatedAt, localUpdatedAt) ==
  IF ~isManual \/ localEmpty \/ cloudUpdatedAt >= localUpdatedAt THEN "cloud"
  ELSE IF isManual /\ localUpdatedAt > cloudUpdatedAt THEN "local"
  ELSE "none"

\* syncDataWithCloud from the answer of the select on: outcome is the
\* outcome of the upsert or insert, when one is made
SyncRun(isManual, outcome) ==
  /\ \E k \in 1..Len(tasks) : tasks[k] = Task("sync", isManual, << >>)
  /\ LET dbData == cloud.user_finance
         localData == storage.data
         localUpdatedAt == IF localData # << >> THEN storage.lastUpdated ELSE 0
         rest == SelectSeq(tasks, LAMBDA t : t # Task("sync", isManual, << >>))
         keep == IF dbData = << >> THEN "none"
                 ELSE TakesCloud(isManual, isLocalEmpty(localData), dbData[1].updated_at, localUpdatedAt)
     IN  /\ last' = [Call("sync") EXCEPT !.paymentMethod = outcome, !.id = IF isManual THEN 1 ELSE 0]
         /\ IF keep = "cloud"
            THEN /\ outcome = "ok"
                 /\ incomes' = dbData[1].data.incomes
                 /\ expenses' = dbData[1].data.expenses
                 /\ cards' = dbData[1].data.cards
                 /\ storage' = PersistStorage(dbData[1].data, clock)
                 /\ tasks' = PersistTimer(rest, dbData[1].data, user)
                 /\ UNCHANGED cloud
            ELSE /\ IF (keep = "local" \/ (dbData = << >> /\ ~isLocalEmpty(localData))) /\ outcome = "ok"
                    THEN cloud' = [cloud EXCEPT !.user_finance = <<[data |-> localData[1], updated_at |-> clock]>>]
                    ELSE UNCHANGED cloud
                 /\ tasks' = rest
                 /\ UNCHANGED <<incomes, expenses, cards, storage>>
  /\ UNCHANGED <<probe, cardPayments, renderedPayments, expenseCategories, user, clock, isSaving>>

\* the debounce delay has passed: saveToSupabase of the render that set the timer
SaveFires ==
  /\ \E k \in 1..Len(tasks) : tasks[k].kind = "save"
  /\ LET t == SelectSeq(tasks, LAMBDA x : x.kind = "save")[1]
     IN  /\ tasks' = WithoutKind(tasks, "save")
         /\ IF t.flag
            THEN cloud' = [cloud EXCEPT !.user_finance = <<[data |-> t.payload[1], updated_at |-> clock]>>]
            ELSE UNCHANGED cloud
  /\ last' = Call("save")
  /\ UNCHANGED <<incomes, expenses, probe, cards, cardPayments, renderedPayments, expenseCategories,
                 user, clock, storage, isSaving>>

NextSync ==
  \/ Tick
  \/ OtherDevice
  \/ \E expense \in NewOneTimes : addExpenseData(expense)
  \/ Login
  \/ ManualSync
  \/ \E isManual \in BOOLEAN, outcome \in {"ok", "error"} : SyncRun(isManual, outcome)
  \/ SaveFires

SpecSync == InitSync /\ [][NextSync]_vars

\* a timer that is not cleared fires when its delay has passed
SpecSyncFair == InitSync /\ [][NextSync]_vars /\ WF_vars(SaveFires)

(***************************************************************************)
(* The provider that writes to the tables first and reloads               *)
(* (unnamed/part_005): a mutation awaits its write, then loadData, and     *)
(* the realtime channel calls loadData on every change of a table.         *)
(***************************************************************************)
MaxTasks == 2

\* the user of the render whose loadData the channel's callbacks hold: the
\* effect that subscribes runs once, after the first render
ChannelUser == FALSE

Step(op, id, row) == [op |-> op, id |-> id, row |-> row]

\* addExpense: the row the insert sends
ToRow(expense, id) ==
  [ id |-> id, title |-> expense.title, category_id |-> expense.categoryId, type |-> expense.type,
    billing_month |-> expense.billingMonth, total_value |-> expense.totalValue,
    installment_value |-> expense.installmentValue,
    installments_current |-> IF expense.installments # << >> THEN expense.installments[1].current ELSE 0,
    installments_total |-> IF expense.installments # << >> THEN expense.installments[1].total ELSE 0,
    payment_method |-> expense.paymentMethod, original_id |-> expense.originalId,
    value_history |-> expense.valueHistory ]

\* loadData: the expense a row is mapped to
FromRow(e) ==
  Expense(e.id, e.title, e.category_id, e.type, e.billing_month, e.total_value, e.installment_value,
          IF e.installments_current # 0 THEN << Installments(e.installments_current, e.installments_total) >>
          ELSE << >>,
          e.payment_method, e.original_id, e.value_history)

FromRows(rows) == [k \in 1..Len(rows) |-> FromRow(rows[k])]

\* the ids of the rows and of the writes in flight
RowIds ==
  { cloud.expenses[k].id : k \in 1..Len(cloud.expenses) }
  \cup { tasks[k].payload[1].id : k \in { j \in 1..Len(tasks) : tasks[j].kind = "write" } }
  \cup ExpenseIds

RemoveAt(seq, k) == SubSeq(seq, 1, k - 1) \o SubSeq(seq, k + 1, Len(seq))

\* a postgres_changes event waits for its callback (events are coalesced)
WithEvent(tsks) == IF HasKind(tsks, "event") THEN tsks ELSE Append(tsks, Task("event", FALSE, << >>))

\* a write that returned an error is followed by a reload all the same
ReloadsAfterAny(outcome) == TRUE

\* if (!error) await loadData()
ReloadsAfter(outcome) == outcome = "ok"

\* onAuthStateChange delivers a session: the effect on [user, loadData] loads
LoginRealtime ==
  /\ ~user
  /\ user' = TRUE
  /\ tasks' = Append(tasks, Task("load", FALSE, <<Step("login", 0, << >>)>>))
  /\ last' = Call("login")
  /\ UNCHANGED <<incomes, expenses, probe, cards, cardPayments, renderedPayments, expenseCategories,
                 clock, storage, cloud, isSaving>>

\* another device inserts an expense
RemoteInsert ==
  /\ \A k \in 1..Len(cloud.expenses) : cloud.expenses[k].title # "b"
  /\ cloud' = [cloud EXCEPT !.expenses = Append(@, ToRow(NewOneTimes1("b"), uuidv4(RowIds)))]
  /\ tasks' = WithEvent(tasks)
  /\ last' = Call("remoteInsert")
  /\ UNCHANGED <<incomes, expenses, probe, cards, cardPayments, renderedPayments, expenseCategories,
                 user, clock, storage, isSaving>>

\* the callback of the channel: () => loadData()
EventDelivered ==
  /\ HasKind(tasks, "event")
  /\ tasks' = IF ChannelUser
              THEN Append(WithoutKind(tasks, "event"), Task("load", FALSE, <<Step("event", 0, << >>)>>))
              ELSE WithoutKind(tasks, "event")
  /\ last' = Call("event")
  /\ UNCHANGED <<incomes, expenses, probe, cards, cardPayments, renderedPayments, expenseCategories,
                 user, clock, storage, cloud, isSaving>>

\* loadData from the answers of the selects on; the load a mutation awaited
\* is followed by the finally block of the mutation
LoadFinishes(k, outcome) ==
  /\ k \in 1..Len(tasks)
  /\ tasks[k].kind = "load"
  /\ tasks' = RemoveAt(tasks, k)
  /\ IF outcome = "ok"
     THEN expenses' = FromRows(cloud.expenses)
     ELSE UNCHANGED expenses
  /\ isSaving' = IF tasks[k].payload[1].op = "write" THEN FALSE ELSE isSaving
  /\ last' = [Call("load") EXCEPT !.paymentMethod = outcome]
  /\ UNCHANGED <<incomes, probe, cards, cardPayments, renderedPayments, expenseCategories,
                 user, clock, storage, cloud>>

\* addExpense and deleteExpense of the provider up to the awaited write
Mutate(op, id, row) ==
  /\ last' = [Call(op) EXCEPT !.id = id]
  /\ IF ~user
     THEN UNCHANGED <<tasks, isSaving>>
     ELSE /\ Len(tasks) < MaxTasks
          /\ tasks' = Append(tasks, Task("write", FALSE, <<Step(op, id, row)>>))
          /\ isSaving' = TRUE
  /\ UNCHANGED <<incomes, expenses, probe, cards, cardPayments, renderedPayments, expenseCategories,
                 user, clock, storage, cloud>>

\* the write returns: with no error the provider reloads, and the finally
\* block clears isSaving when the mutation is over
WriteFinishes(k, outcome) ==
  /\ k \in 1..Len(tasks)
  /\ tasks[k].kind = "write"
  /\ LET w == tasks[k].payload[1]
         rest == RemoveAt(tasks, k)
         applied == IF w.op = "addExpense" THEN Append(cloud.expenses, w.row[1])
                    ELSE SelectSeq(cloud.expenses, LAMBDA r : r.id # w.id)
     IN  /\ cloud' = IF outcome = "ok" THEN [cloud EXCEPT !.expenses = applied] ELSE cloud
         /\ tasks' = IF ReloadsAfter(outcome)
                     THEN Append(IF outcome = "ok" THEN WithEvent(rest) ELSE rest,
                                 Task("load", FALSE, <<Step("write", IF outcome = "ok" THEN 1 ELSE 0, << >>)>>))
                     ELSE rest
         /\ isSaving' = IF ReloadsAfter(outcome) THEN isSaving ELSE FALSE
  /\ last' = [Call("write") EXCEPT !.paymentMethod = outcome]
  /\ UNCHANGED <<incomes, expenses, probe, cards, cardPayments, renderedPayments, expenseCategories,
                 user, clock, storage>>

Outcomes == {"ok", "error"}

NextRealtime ==
  \/ LoginRealtime
  \/ RemoteInsert
  \/ EventDelivered
  \/ \E k \in 1..Len(tasks), outcome \in Outcomes : LoadFinishes(k, outcome)
  \/ /\ \A k \in 1..Len(cloud.expenses) : cloud.expenses[k].title # "a"
     /\ \A k \in 1..Len(tasks) : tasks[k].kind = "write" => tasks[k].payload[1].op # "addExpense"
     /\ Mutate("addExpense", uuidv4(RowIds), <<ToRow(NewOneTimes1("a"), uuidv4(RowIds))>>)
  \/ \E id \in ExpenseIds : Find(expenses, id)[1].title = "b" /\ Mutate("deleteExpense", id, << >>)
  \/ \E k \in 1..Len(tasks), outcome \in Outcomes : WriteFinishes(k, outcome)

SpecRealtime == InitStore /\ [][NextRealtime]_vars

(***************************************************************************)
(* The move from the JSON row to the entity tables (hooks/useFinance.tsx): *)
(* loadDataFromCloud looks for the legacy user_finance row once, and       *)
(* migrateDataFromJSON upserts its arrays table by table, deletes the row  *)
(* and sets the flag migration_complete_v2 in localStorage.  The model     *)
(* keeps the rows of incomes and expenses; of every table it keeps whether *)
(* an upsert of the migration returned an error (cloud.failed).            *)
(***************************************************************************)
\* the order of the upserts of migrateDataFromJSON
MigrationTables == <<"cards", "categories", "incomes", "expenses", "card_payments">>

\* the data of a legacy row
LegacyData(cds, incomeCats, expenseCats, incs, exps, pays) ==
  [ cards |-> cds, incomeCategories |-> incomeCats, expenseCategories |-> expenseCats,
    incomes |-> incs, expenses |-> exps, cardPayments |-> pays ]

\* the rows a user of the JSON version can have left
LegacyRows ==
  { LegacyData(cds, << >>, cats, incs, exps, pays) :
      cds \in {<< >>, <<Card("card-1", "Visa")>>},
      cats \in {<< >>, <<Category("c1", "Food")>>},
      incs \in {<< >>, <<Income(1, "a", "c1", "fixed", "cash", <<HistoryItem(StartMonth, Num(1), "cash")>>, << >>, << >>, 0)>>},
      exps \in {<< >>, <<Expense(1, "b", "c1", "one_time", StartMonth, Num(1), Num(1), << >>, "cash", 0, << >>)>>},
      pays \in {<< >>, <<[cardId |-> "card-1", monthYear |-> StartMonth, isPaid |-> TRUE]>>} }

\* the array of oldData a table is filled from
LegacyArray(oldData, table) ==
  IF table = "cards" THEN oldData.cards
  ELSE IF table = "categories" THEN oldData.incomeCategories \o oldData.expenseCategories
  ELSE IF table = "incomes" THEN oldData.incomes
  ELSE IF table = "expenses" THEN oldData.expenses
  ELSE oldData.cardPayments

\* if (arr && arr.length > 0) await upsert: the first table from position k
\* on whose array is not empty, or the delete of the legacy row
RECURSIVE NextUpsert(_, _)
NextUpsert(oldData, k) ==
  IF k > Len(MigrationTables) THEN "delete"
  ELSE IF LegacyArray(oldData, MigrationTables[k]) # << >> THEN MigrationTables[k]
  ELSE NextUpsert(oldData, k + 1)

TableIndex(table) == CHOOSE k \in 1..Len(MigrationTables) : MigrationTables[k] = table

\* upsert: a row replaces the row of its id, a new id is appended
UpsertRows(table, rows) ==
  SelectSeq(table, LAMBDA r : \A k \in 1..Len(rows) : rows[k].id # r.id) \o rows

\* where loadDataFromCloud stands, and the oldData migrateDataFromJSON holds
Position(pc, oldData) == [pc |-> pc, oldData |-> oldData]

\* await supabase.from(table).upsert(...): the answer is not read
AfterUpsert(oldData, table, outcome) == NextUpsert(oldData, TableIndex(table) + 1)

InitMigrate ==
  /\ incomes = << >>
  /\ expenses = << >>
  /\ last = NoCall
  /\ probe = NoProbe
  /\ cards = << >>
  /\ cardPayments = << >>
  /\ renderedPayments = << >>
  /\ expenseCategories = << >>
  /\ user = FALSE
  /\ clock = 0
  /\ storage = NoStorage
  /\ \E row \in {<< >>} \cup { <<[data |-> oldData, updated_at |-> 0]>> : oldData \in LegacyRows } :
       cloud = [NoCloud EXCEPT !.user_finance = row]
  /\ tasks = << >>
  /\ isSaving = FALSE

\* onAuthStateChange delivers a session: the effect on [user, loadDataFromCloud]
LoginMigrate ==
  /\ ~user
  /\ user' = TRUE
  /\ tasks' = <<Task("loadDataFromCloud", FALSE, <<Position("select", << >>)>>)>>
  /\ last' = Call("login")
  /\ UNCHANGED <<incomes, expenses, probe, cards, cardPayments, renderedPayments, expenseCategories,
                 clock, storage, cloud, isSaving>>

\* supabase.auth.signOut()
LogoutMigrate ==
  /\ user
  /\ tasks = << >>
  /\ user' = FALSE
  /\ last' = Call("logout")
  /\ UNCHANGED <<incomes, expenses, probe, cards, cardPayments, renderedPayments, expenseCategories,
                 clock, storage, cloud, tasks, isSaving>>

\* loadDataFromCloud up to the answer of the select of the legacy row:
\* with the flag set nothing is selected; a row found starts
\* migrateDataFromJSON; no row, or no answer, sets the flag
SelectLegacy(outcome) ==
  /\ tasks # << >>
  /\ tasks[1].payload[1].pc = "select"
  /\ LET found == IF outcome = "ok" /\ ~storage.migrated THEN cloud.user_finance ELSE << >>
     IN  IF storage.migrated
         THEN /\ tasks' = <<Task("loadDataFromCloud", FALSE, <<Position("tables", << >>)>>)>>
              /\ UNCHANGED <<storage, isSaving>>
         ELSE IF found # << >>
         THEN /\ tasks' = <<Task("loadDataFromCloud", FALSE,
                                 <<Position(NextUpsert(found[1].data, 1), <<found[1].data>>)>>)>>
              /\ isSaving' = TRUE
              /\ UNCHANGED storage
         ELSE /\ tasks' = <<Task("loadDataFromCloud", FALSE, <<Position("tables", << >>)>>)>>
              /\ storage' = [storage EXCEPT !.migrated = TRUE]
              /\ UNCHANGED isSaving
  /\ last' = [Call("select") EXCEPT !.paymentMethod = outcome]
  /\ UNCHANGED <<incomes, expenses, probe, cards, cardPayments, renderedPayments, expenseCategories,
                 user, clock, cloud>>

\* migrateDataFromJSON: the upsert of one table returns
UpsertReturns(outcome) ==
  /\ tasks # << >>
  /\ tasks[1].payload[1].pc \in { MigrationTables[k] : k \in 1..Len(MigrationTables) }
  /\ LET table == tasks[1].payload[1].pc
         oldData == tasks[1].payload[1].oldData[1]
         after == AfterUpsert(oldData, table, outcome)
     IN  /\ cloud' = IF outcome = "ok"
                     THEN IF table = "incomes"
                          THEN [cloud EXCEPT !.incomes = UpsertRows(@, oldData.incomes)]
                          ELSE IF table = "expenses"
                          THEN [cloud EXCEPT !.expenses = UpsertRows(@, oldData.expenses)]
                          ELSE cloud
                     ELSE [cloud EXCEPT !.failed = @ \cup {table}]
         /\ tasks' = <<Task("loadDataFromCloud", FALSE, <<Position(after, <<oldData>>)>>)>>
  /\ last' = [Call("upsert") EXCEPT !.paymentMethod = outcome]
  /\ UNCHANGED <<incomes, expenses, probe, cards, cardPayments, renderedPayments, expenseCategories,
                 user, clock, storage, isSaving>>

\* migrateDataFromJSON: the delete of the legacy row returns, the flag is
\* set, and the finally block clears isSaving
DeleteLegacy(outcome) ==
  /\ tasks # << >>
  /\ tasks[1].payload[1].pc = "delete"
  /\ cloud' = IF outcome = "ok" THEN [cloud EXCEPT !.user_finance = << >>] ELSE cloud
  /\ storage' = [storage EXCEPT !.migrated = TRUE]
  /\ isSaving' = FALSE
  /\ tasks' = <<Task("loadDataFromCloud", FALSE, <<Position("tables", << >>)>>)>>
  /\ last' = [Call("delete") EXCEPT !.paymentMethod = outcome]
  /\ UNCHANGED <<incomes, expenses, probe, cards, cardPayments, renderedPayments, expenseCategories,
                 user, clock>>

\* loadDataFromCloud, step 2: if (dbIncomes) setIncomes(dbIncomes);
\* if (dbExpenses) setExpenses(dbExpenses)
LoadTables(gotIncomes, gotExpenses) ==
  /\ tasks # << >>
  /\ tasks[1].payload[1].pc = "tables"
  /\ incomes' = IF gotIncomes THEN cloud.incomes ELSE incomes
  /\ expenses' = IF gotExpenses THEN cloud.expenses ELSE expenses
  /\ tasks' = << >>
  /\ last' = Call("tables")
  /\ UNCHANGED <<probe, cards, cardPayments, renderedPayments, expenseCategories,
                 user, clock, storage, cloud, isSaving>>

NextMigrate ==
  \/ LoginMigrate
  \/ LogoutMigrate
  \/ \E outcome \in Outcomes : SelectLegacy(outcome)
  \/ \E outcome \in Outcomes : UpsertReturns(outcome)
  \/ \E outcome \in Outcomes : DeleteLegacy(outcome)
  \/ \E gotIncomes \in BOOLEAN, gotExpenses \in BOOLEAN : LoadTables(gotIncomes, gotExpenses)

SpecMigrate == InitMigrate /\ [][NextMigrate]_vars

(***************************************************************************)
(* The read side: one record put in the store and asked for its value of   *)
(* a month, and the month arithmetic on its own.  probe holds the call and *)
(* what it returned.                                                       *)
(***************************************************************************)
MaxOffset == 13

\* the histories the ledger can hold: what PushHistoryEntry leaves alone
Ledgers(methods) ==
  { h \in UNION { [1..len -> { HistoryItem(m, v, pm) : m \in Months, v \in Values, pm \in methods }] :
                    len \in 0..MaxHistory } :
      h = UniqueFrom(<< >>, SortAsc(h)) }

QueryIncomes ==
  { Income(1, "a", "c1", "fixed", "cash", h, << >>, << >>, 0) : h \in Ledgers({"cash"}) }
  \cup
  { Income(1, "a", "c1", "temporary", "cash", << >>, <<a>>, s, d) :
      a \in Values, s \in Months, d \in 1..MaxDuration }

QueryExpenses ==
  { Expense(1, "a", "c1", "fixed", StartMonth, Num(1), Num(1), << >>, "cash", 0, h) :
      h \in Ledgers({"", "card-1"}) }
  \cup
  { Expense(1, "a", "c1", type, m, Num(MaxValue), v, << >>, pm, 0, << >>) :
      type \in {"one_time", "installment"}, m \in Months, v \in Values, pm \in PaymentMethods }

InitQuery ==
  /\ \/ incomes \in { <<i>> : i \in QueryIncomes } /\ expenses = << >>
     \/ incomes = << >> /\ expenses \in { <<e>> : e \in QueryExpenses }
     \/ incomes = << >> /\ expenses = << >>
  /\ last = NoCall
  /\ probe = NoProbe
  /\ cards = << >>
  /\ cardPayments = << >>
  /\ renderedPayments = << >>
  /\ expenseCategories = << >>
  /\ user = FALSE
  /\ clock = 0
  /\ storage = NoStorage
  /\ cloud = NoCloud
  /\ tasks = << >>
  /\ isSaving = FALSE

ResolveIncome(monthYear) ==
  /\ incomes # << >>
  /\ probe' = [NoProbe EXCEPT !.kind = "income", !.arg = monthYear,
                              !.value = getIncomeValueForMonth(incomes[1], monthYear)]
  /\ UNCHANGED <<incomes, expenses, last, cards, cardPayments, renderedPayments, expenseCategories, remote>>

ResolveExpense(monthYear) ==
  /\ expenses # << >>
  /\ LET r == getExpenseValueForMonth(expenses[1], monthYear)
     IN  probe' = [NoProbe EXCEPT !.kind = "expense", !.version = "useFinance", !.arg = monthYear,
                                  !.value = r.value, !.paymentMethod = r.paymentMethod]
  /\ UNCHANGED <<incomes, expenses, last, cards, cardPayments, renderedPayments, expenseCategories, remote>>

ResolveExpenseMapped(monthYear) ==
  /\ expenses # << >>
  /\ LET r == getExpenseValueForMonthMapped(expenses[1], monthYear)
     IN  probe' = [NoProbe EXCEPT !.kind = "expense", !.version = "mapped", !.arg = monthYear,
                                  !.value = r.value, !.paymentMethod = r.paymentMethod]
  /\ UNCHANGED <<incomes, expenses, last, cards, cardPayments, renderedPayments, expenseCategories, remote>>

ProbeBillingMonth(startBillingMonth, i) ==
  /\ incomes = << >> /\ expenses = << >>
  /\ probe' = [NoProbe EXCEPT !.kind = "billingMonth", !.arg = startBillingMonth, !.n = i,
                              !.result = BillingMonth(startBillingMonth, i)]
  /\ UNCHANGED <<incomes, expenses, last, cards, cardPayments, renderedPayments, expenseCategories, remote>>

ProbeEndMonth(startMonth, durationMonths) ==
  /\ incomes = << >> /\ expenses = << >>
  /\ probe' = [NoProbe EXCEPT !.kind = "endMonth", !.arg = startMonth, !.n = durationMonths,
                              !.result = EndMonth(startMonth, durationMonths)]
  /\ UNCHANGED <<incomes, expenses, last, cards, cardPayments, renderedPayments, expenseCategories, remote>>

YearMonths == { Format([y |-> FirstYear, m |-> m]) : m \in 1..12 }

NextQuery ==
  \/ \E m \in Months : ResolveIncome(m)
  \/ \E m \in Months : ResolveExpense(m)
  \/ \E m \in Months : ResolveExpenseMapped(m)
  \/ \E s \in YearMonths, i \in 0..MaxOffset : ProbeBillingMonth(s, i)
  \/ \E s \in YearMonths, d \in 1..(MaxOffset + 1) : ProbeEndMonth(s, d)

SpecQuery == InitQuery /\ [][NextQuery]_vars

(***************************************************************************)
(* What a read leaves behind.  Array.prototype.filter returns a new array  *)
(* and Array.prototype.sort orders the array it is called on: the getters  *)
(* call sort on the filtered copy.                                         *)
(***************************************************************************)
\* valueHistory after a sort called on valueHistory itself
HistoryAfterGetInPlace(history, monthYear) == SortDesc(history)

\* valueHistory after valueHistory.filter(h => h.monthYear <= monthYear).sort(...)
HistoryAfterGet(history, monthYear) ==
  LET created == [valueHistory |-> history, filtered |-> AtOrBefore(history, monthYear)]
      sorted == [created EXCEPT !.filtered = SortDesc(@)]
  IN  sorted.valueHistory

\* the entity after getIncomeValueForMonth / getExpenseValueForMonth
AfterGet(entity, monthYear) ==
  IF entity.type # "fixed" \/ Len(entity.valueHistory) = 0 THEN entity
  ELSE [entity EXCEPT !.valueHistory = HistoryAfterGet(@, monthYear)]

GetIncome(monthYear) ==
  /\ incomes # << >>
  /\ probe' = [NoProbe EXCEPT !.kind = "income", !.arg = monthYear,
                              !.value = getIncomeValueForMonth(incomes[1], monthYear)]
  /\ incomes' = [incomes EXCEPT ![1] = AfterGet(@, monthYear)]
  /\ UNCHANGED <<expenses, last, cards, cardPayments, renderedPayments, expenseCategories, remote>>

GetExpense(monthYear) ==
  /\ expenses # << >>
  /\ LET r == getExpenseValueForMonth(expenses[1], monthYear)
     IN  probe' = [NoProbe EXCEPT !.kind = "expense", !.version = "useFinance", !.arg = monthYear,
                                  !.value = r.value, !.paymentMethod = r.paymentMethod]
  /\ expenses' = [expenses EXCEPT ![1] = AfterGet(@, monthYear)]
  /\ UNCHANGED <<incomes, last, cards, cardPayments, renderedPayments, expenseCategories, remote>>

\* Summary: total income, total expense and balance of the selected month
Aggregate(selectedMonth) ==
  /\ probe' = [NoProbe EXCEPT !.kind = "aggregate", !.arg = selectedMonth,
                              !.result = << totalIncome(incomes, selectedMonth),
                                            totalExpenses(expenses, selectedMonth),
                                            balance(incomes, expenses, selectedMonth) >>]
  /\ incomes' = [k \in 1..Len(incomes) |-> AfterGet(incomes[k], selectedMonth)]
  /\ expenses' = [k \in 1..Len(expenses) |-> AfterGet(expenses[k], selectedMonth)]
  /\ UNCHANGED <<last, cards, cardPayments, renderedPayments, expenseCategories, remote>>

NextPure ==
  \/ \E m \in Months : GetIncome(m)
  \/ \E m \in Months : GetExpense(m)
  \/ \E m \in Months : Aggregate(m)

SpecPure == InitQuery /\ [][NextPure]_vars

(***************************************************************************)
(* Properties.  Months are compared on the calendar: MonthIndex reads the  *)
(* digits of "YYYY-MM" and counts months from year 0.                      *)
(***************************************************************************)
MonthIndex(str) ==
  ((str[1] - 48) * 1000 + (str[2] - 48) * 100 + (str[3] - 48) * 10 + (str[4] - 48)) * 12
  + ((str[6] - 48) * 10 + (str[7] - 48)) - 1

Before(h, monthYear) ==
  \A j \in 1..Len(h) : MonthIndex(monthYear) < MonthIndex(h[j].monthYear)

Earliest(h, j) ==
  \A i \in 1..Len(h) : MonthIndex(h[j].monthYear) <= MonthIndex(h[i].monthYear)

LatestAtOrBefore(h, j, monthYear) ==
  /\ MonthIndex(h[j].monthYear) <= MonthIndex(monthYear)
  /\ \A i \in 1..Len(h) :
       MonthIndex(h[i].monthYear) <= MonthIndex(monthYear)
         => MonthIndex(h[i].monthYear) <= MonthIndex(h[j].monthYear)

\* C1: for every fixed income the store holds after addIncome, updateIncome
\* and updateFixedIncomeValue, a month strictly earlier than every entry of
\* its history resolves to the value of the earliest entry, never to 0.
C1_EarliestEntryBeforeHistory ==
  \A k \in 1..Len(incomes), m \in Months :
    LET h == incomes[k].valueHistory
    IN  (incomes[k].type = "fixed" /\ Len(h) > 0 /\ Before(h, m))
          => /\ \E j \in 1..Len(h) :
                  Earliest(h, j) /\ getIncomeValueForMonth(incomes[k], m) = h[j].value
             /\ getIncomeValueForMonth(incomes[k], m) # Zero

C1_Witness ==
  /\ last.op = "updateFixedIncomeValue"
  /\ \E k \in 1..Len(incomes), m \in Months :
       LET h == incomes[k].valueHistory
       IN  /\ incomes[k].type = "fixed" /\ Len(h) >= 2 /\ Before(h, m)
           /\ h[1].value # h[2].value
           /\ getIncomeValueForMonth(incomes[k], m) = h[1].value

\* C2: a fixed income resolves a month to the value of the entry with the
\* greatest monthYear at or before that month, when there is one, and to 0
\* when its history is empty.
C2_LatestAtOrBefore ==
  (probe.kind = "income" /\ incomes[1].type = "fixed")
    => LET h == incomes[1].valueHistory
       IN  /\ Len(h) = 0 => probe.value = Zero
           /\ (\E j \in 1..Len(h) : MonthIndex(h[j].monthYear) <= MonthIndex(probe.arg))
                => \E j \in 1..Len(h) :
                     LatestAtOrBefore(h, j, probe.arg) /\ probe.value = h[j].value

C2_Witness ==
  /\ probe.kind = "income" /\ incomes[1].type = "fixed"
  /\ LET h == incomes[1].valueHistory
     IN  /\ Len(h) >= 2
         /\ MonthIndex(h[2].monthYear) <= MonthIndex(probe.arg)
         /\ h[1].value # h[2].value
         /\ probe.value = h[2].value

\* C3: a temporary income of amount a that starts in month s and lasts
\* d >= 1 months resolves to a for the months s .. s + (d - 1) of the
\* calendar, a window that may run into the next year, and to 0 for every
\* other month.
C3_TemporaryWindow ==
  (probe.kind = "income" /\ incomes[1].type = "temporary" /\ incomes[1].durationMonths >= 1)
    => LET s == MonthIndex(incomes[1].startMonth)
           m == MonthIndex(probe.arg)
       IN  probe.value = IF s <= m /\ m <= s + (incomes[1].durationMonths - 1)
                         THEN incomes[1].amount[1] ELSE Zero

C3_Witness ==
  /\ probe.kind = "income" /\ incomes[1].type = "temporary"
  /\ incomes[1].durationMonths >= 2
  /\ incomes[1].startMonth[4] # probe.arg[4]
  /\ MonthIndex(probe.arg) = MonthIndex(incomes[1].startMonth) + incomes[1].durationMonths - 1
  /\ probe.value = incomes[1].amount[1]
  /\ probe.value # Zero

\* C4: every version of getExpenseValueForMonth resolves a fixed expense
\* as a fixed income is resolved (the latest entry at or before the month,
\* else the earliest entry, and value 0 for an empty history) and returns
\* the payment method of the chosen entry, or the expense's own when the
\* entry has none.
C4_FixedExpenseLookup ==
  (probe.kind = "expense" /\ expenses[1].type = "fixed")
    => LET h == expenses[1].valueHistory
           Returned(j) ==
             /\ probe.value = h[j].value
             /\ probe.paymentMethod = IF h[j].paymentMethod # "" THEN h[j].paymentMethod
                                      ELSE expenses[1].paymentMethod
       IN  /\ Len(h) = 0 => probe.value = Zero
           /\ (\E j \in 1..Len(h) : MonthIndex(h[j].monthYear) <= MonthIndex(probe.arg))
                => \E j \in 1..Len(h) : LatestAtOrBefore(h, j, probe.arg) /\ Returned(j)
           /\ (Len(h) > 0 /\ Before(h, probe.arg))
                => \E j \in 1..Len(h) : Earliest(h, j) /\ Returned(j)

\* C5: a one_time or installment expense resolves to its installmentValue
\* in its billingMonth and to 0 in every other month, and the payment
\* method returned is the expense's own.
C5_BillingMonthOnly ==
  (probe.kind = "expense" /\ expenses[1].type \in {"one_time", "installment"})
    => /\ probe.value = IF MonthIndex(expenses[1].billingMonth) = MonthIndex(probe.arg)
                        THEN expenses[1].installmentValue ELSE Zero
       /\ probe.paymentMethod = expenses[1].paymentMethod

C5_Witness ==
  /\ probe.kind = "expense" /\ expenses[1].type = "installment"
  /\ expenses[1].billingMonth = probe.arg
  /\ probe.value = expenses[1].installmentValue
  /\ probe.value # Zero
  /\ probe.paymentMethod = "card-1"

\* C6: after any sequence of updateFixedIncomeValue and
\* updateFixedExpenseValue calls, every valueHistory in the store is
\* strictly ascending by monthYear.
C6_HistoryStrictlyAscending ==
  /\ \A k \in 1..Len(incomes) : \A j \in 1..(Len(incomes[k].valueHistory) - 1) :
       MonthIndex(incomes[k].valueHistory[j].monthYear)
         < MonthIndex(incomes[k].valueHistory[j + 1].monthYear)
  /\ \A k \in 1..Len(expenses) : \A j \in 1..(Len(expenses[k].valueHistory) - 1) :
       MonthIndex(expenses[k].valueHistory[j].monthYear)
         < MonthIndex(expenses[k].valueHistory[j + 1].monthYear)

C6_Witness ==
  /\ last.op = "updateFixedExpenseValue/overwrite"
  /\ \E k \in 1..Len(incomes) : Len(incomes[k].valueHistory) >= 2
  /\ \E k \in 1..Len(expenses) : Len(expenses[k].valueHistory) >= 2

\* C7: a push for a month that replaces or adds an entry leaves exactly one
\* entry for that month, carrying the value and payment method of this
\* push, and leaves the entries of all other months as they were.
EntriesOf(h, monthYear) == SelectSeq(h, LAMBDA e : e.monthYear = monthYear)

C7_PushKeepsLast ==
  [][LET id == last'.id
         m == last'.monthYear
     IN  (/\ last'.op \in {"updateFixedIncomeValue", "updateFixedIncomeValue/overwrite"}
          /\ updateFixedIncomeValue(id, m, last'.value, last'.paymentMethod)
          /\ Find(incomes, id)[1].type = "fixed")
           => LET old == Find(incomes, id)[1].valueHistory
                  new == Find(incomes', id)[1].valueHistory
              IN  /\ EntriesOf(new, m) = <<HistoryItem(m, last'.value, last'.paymentMethod)>>
                  /\ \A other \in Months \ {m} : EntriesOf(new, other) = EntriesOf(old, other)]_vars

C7_Witness ==
  /\ last.op = "updateFixedIncomeValue/overwrite"
  /\ \E k \in 1..Len(incomes) :
       /\ incomes[k].id = last.id
       /\ Len(incomes[k].valueHistory) >= 2
       /\ EntriesOf(incomes[k].valueHistory, last.monthYear)
            = <<HistoryItem(last.monthYear, Num(MaxValue), "")>>

\* C8: addInstallmentExpense(base, start, N) with N >= 1 appends exactly N
\* records and changes no record that was there; installment i (from 0) is
\* billed in month start + i, has installments {current: i + 1, total: N},
\* type installment and the totalValue, installmentValue, categoryId,
\* paymentMethod and title of the base; all N share one originalId that no
\* other record carries, and their ids are distinct from each other and
\* from every other id.
C8_InstallmentExpansion ==
  [][\A N \in 1..MaxInstallments : \A base \in InstallmentBases(N) :
       addInstallmentExpense(base, StartMonth, N)
         => LET old == Len(expenses)
                new(i) == expenses'[old + 1 + i]
            IN  /\ Len(expenses') = old + N
                /\ \A k \in 1..old : expenses'[k] = expenses[k]
                /\ \A i \in 0..(N - 1) :
                     /\ MonthIndex(new(i).billingMonth) = MonthIndex(StartMonth) + i
                     /\ new(i).installments = << [current |-> i + 1, total |-> N] >>
                     /\ new(i).type = "installment"
                     /\ new(i).totalValue = base.totalValue
                     /\ new(i).installmentValue = base.installmentValue
                     /\ new(i).categoryId = base.categoryId
                     /\ new(i).paymentMethod = base.paymentMethod
                     /\ new(i).title = base.title
                     /\ new(i).originalId = new(0).originalId
                     /\ new(i).originalId # 0
                     /\ \A k \in 1..old : /\ expenses[k].originalId # new(i).originalId
                                          /\ expenses[k].id # new(i).id
                     /\ \A j \in 0..(N - 1) : j # i => new(j).id # new(i).id]_vars

C8_Witness ==
  \E k \in 1..Len(expenses), j \in 1..Len(expenses) :
    /\ j < k
    /\ expenses[k].type = "installment"
    /\ expenses[k].installments = << [current |-> 2, total |-> 2] >>
    /\ expenses[k].billingMonth = BillingMonth(StartMonth, 1)
    /\ expenses[j].originalId # expenses[k].originalId

\* C9: the month i months after a start month is the month i later on the
\* calendar, written as a four-digit year, a hyphen and a two-digit month
\* 01..12 (2024-12 plus 1 is 2025-01), so consecutive installments are
\* billed in consecutive months; the last month of a window of d months is
\* start plus d - 1.
C9_MonthArithmetic ==
  LET WellFormed(str) ==
        /\ Len(str) = 7 /\ str[5] = Hyphen
        /\ \A k \in {1, 2, 3, 4, 6, 7} : str[k] \in 48..57
        /\ (str[6] - 48) * 10 + (str[7] - 48) \in 1..12
  IN  /\ probe.kind = "billingMonth"
        => /\ WellFormed(probe.result)
           /\ MonthIndex(probe.result) = MonthIndex(probe.arg) + probe.n
           /\ MonthIndex(BillingMonth(probe.arg, probe.n + 1)) = MonthIndex(probe.result) + 1
      /\ probe.kind = "endMonth"
        => /\ WellFormed(probe.result)
           /\ MonthIndex(probe.result) = MonthIndex(probe.arg) + probe.n - 1

C9_Witness ==
  /\ probe.kind = "billingMonth"
  /\ probe.arg = Format([y |-> FirstYear, m |-> 12])
  /\ probe.n = 1
  /\ probe.result = Format([y |-> FirstYear + 1, m |-> 1])

\* C10: updateExpense(id, updates, 'future') on a member of a series
\* applies the update to exactly the members of the series whose
\* installments.current is at least the target's, the target included, and
\* leaves every other record as it was.
C10_FutureScope ==
  [][\A id \in ExpenseIds, t \in Titles, isInstallment \in BOOLEAN :
       LET exp == Find(expenses, id)[1]
           updates == FormUpdates(exp, t, exp.totalValue, isInstallment, FormCount(exp))
           InScope(e) ==
             /\ e.originalId = exp.originalId
             /\ \/ e.id = id
                \/ /\ e.installments # << >> /\ exp.installments # << >>
                   /\ e.installments[1].current >= exp.installments[1].current
       IN  (exp.originalId # 0 /\ updateExpense(id, updates, "future"))
             => \A k \in 1..Len(expenses) :
                  IF InScope(expenses[k]) THEN expenses'[k].title = t
                  ELSE expenses'[k] = expenses[k]]_vars

\* the step is the button `mode` of the scope modal pressed for the edit of
\* the expense id that retitles it "b", with "Compra Parcelada?" as
\* isInstallment and count parcels
ScopeStep(mode, id, isInstallment, count) ==
  /\ last'.op = mode
  /\ last'.id = id
  /\ LET exp == Find(expenses, id)[1]
     IN  applyScope(id, FormUpdates(exp, "b", exp.totalValue, isInstallment, count), mode)

FormCounts == 1..MaxInstallments

\* C11: updateExpense(id, updates, 'only') changes the record with that id
\* and no other: every other expense, the siblings that share its
\* originalId included, is as it was.
C11_OnlyScope ==
  [][\A id \in ExpenseIds, isInstallment \in BOOLEAN, count \in FormCounts :
       ScopeStep("only", id, isInstallment, count)
         => /\ Len(expenses') = Len(expenses)
            /\ \A k \in 1..Len(expenses) :
                 IF expenses[k].id = id
                 THEN expenses'[k].id = id /\ expenses'[k].title = "b"
                 ELSE expenses'[k] = expenses[k]]_vars

C11_Witness ==
  /\ last.op = "only"
  /\ \E k \in 1..Len(expenses), j \in 1..Len(expenses) :
       /\ expenses[k].id = last.id /\ expenses[k].title = "b"
       /\ k < j
       /\ expenses[j].originalId = expenses[k].originalId
       /\ expenses[j].installments # << >>
       /\ expenses[j].title = "a"

\* C12: updateExpense(id, updates, 'all') on a member of a series applies
\* the update to every expense that shares the target's originalId,
\* whatever its installments.current, and to no expense outside the series.
C12_AllScope ==
  [][\A id \in ExpenseIds, isInstallment \in BOOLEAN, count \in FormCounts :
       ScopeStep("all", id, isInstallment, count)
         => LET exp == Find(expenses, id)[1]
            IN  /\ Len(expenses') = Len(expenses)
                /\ \A k \in 1..Len(expenses) :
                     IF expenses[k].originalId = exp.originalId
                     THEN /\ expenses'[k].title = "b"
                          /\ expenses'[k].categoryId = exp.categoryId
                          /\ expenses'[k].paymentMethod = exp.paymentMethod
                          /\ expenses'[k].totalValue = exp.totalValue
                          /\ expenses'[k].id = expenses[k].id
                     ELSE expenses'[k] = expenses[k]]_vars

C12_Witness ==
  /\ last.op = "all"
  /\ \E k \in 1..Len(expenses), j \in 1..Len(expenses), o \in 1..Len(expenses) :
       /\ expenses[k].id = last.id /\ expenses[k].title = "b"
       /\ j < k
       /\ expenses[j].originalId = expenses[k].originalId
       /\ expenses[j].title = "b"
       /\ expenses[o].originalId = 0 /\ expenses[o].title = "a"

\* C13: an updateExpense call that carries updates.totalValue or
\* updates.installments.total leaves every record it rewrites, under each
\* of the scopes only, future and all, with installmentValue equal to its
\* new totalValue divided by its new installments.total, and with
\* installments.total equal to the total the call carries.
C13_RecomputedInstallmentValue ==
  [][\A mode \in {"only", "future", "all"}, id \in ExpenseIds :
       \A isInstallment \in BOOLEAN, count \in FormCounts :
         ScopeStep(mode, id, isInstallment, count)
           => \A k \in 1..Len(expenses) :
                (expenses'[k] # expenses[k] /\ expenses'[k].installments # << >>)
                  => /\ isInstallment => expenses'[k].installments[1].total = count
                     /\ expenses'[k].installmentValue
                          = Div(expenses'[k].totalValue, Num(expenses'[k].installments[1].total))]_vars

\* C14: an edit of title, categoryId or paymentMethod through updateExpense
\* (the form submitted with total value and number of parcels as they are)
\* changes only the targeted record, whatever the scope: every other record
\* keeps its title, categoryId and paymentMethod.
C14_NonInstallmentEditTargetOnly ==
  [][\A mode \in {"only", "future", "all"}, id \in ExpenseIds :
       LET exp == Find(expenses, id)[1]
       IN  (exp.installments # << >> /\ ScopeStep(mode, id, TRUE, FormCount(exp)))
             => \A k \in 1..Len(expenses) :
                  expenses[k].id # id
                    => /\ expenses'[k].title = expenses[k].title
                       /\ expenses'[k].categoryId = expenses[k].categoryId
                       /\ expenses'[k].paymentMethod = expenses[k].paymentMethod]_vars

\* C15: in every reachable state, within each installment series (the
\* expenses that share an originalId) installments.current is at least 1
\* and no two members have the same installments.current.
C15_CurrentUniqueInSeries ==
  \A k \in 1..Len(expenses), j \in 1..Len(expenses) :
    (/\ expenses[k].originalId # 0
     /\ expenses[k].installments # << >>)
      => /\ expenses[k].installments[1].current >= 1
         /\ (/\ j # k
             /\ expenses[j].originalId = expenses[k].originalId
             /\ expenses[j].installments # << >>)
              => expenses[j].installments[1].current # expenses[k].installments[1].current

\* C16 as it was stated: after any re-projection by updateExpense (scope
\* future or all), installments.total is the same on all members of the
\* series.
C16_TotalIdenticalInSeries ==
  [][\A mode \in {"future", "all"}, id \in ExpenseIds :
       \A isInstallment \in BOOLEAN, count \in FormCounts :
         ScopeStep(mode, id, isInstallment, count)
           => \A k \in 1..Len(expenses), j \in 1..Len(expenses) :
                (/\ expenses'[k].originalId = Find(expenses, id)[1].originalId
                 /\ expenses'[j].originalId = Find(expenses, id)[1].originalId
                 /\ expenses'[k].installments # << >>
                 /\ expenses'[j].installments # << >>)
                  => expenses'[k].installments[1].total = expenses'[j].installments[1].total]_vars

\* C16, amended: a re-projection that carries a number of parcels writes it
\* as installments.total on every member of the series when the scope is
\* all, and when the scope is future on the members that have installments
\* with current at least the target's (1 when the target has none); every
\* other member keeps its installments, so the totals can differ across the
\* boundary of the scope.
C16_TotalUniformInScope ==
  [][\A mode \in {"future", "all"}, id \in ExpenseIds, count \in FormCounts :
       ScopeStep(mode, id, TRUE, count)
         => LET exp == Find(expenses, id)[1]
                from == IF exp.installments # << >> /\ exp.installments[1].current # 0
                        THEN exp.installments[1].current ELSE 1
            IN  \A k \in 1..Len(expenses) :
                  IF /\ expenses[k].originalId = exp.originalId
                     /\ \/ mode = "all"
                        \/ /\ expenses[k].installments # << >>
                           /\ expenses[k].installments[1].current >= from
                  THEN /\ expenses'[k].installments # << >>
                       /\ expenses'[k].installments[1].total = count
                  ELSE expenses'[k].installments = expenses[k].installments]_vars

C16_Witness ==
  /\ last.op = "future"
  /\ \E k \in 1..Len(expenses), j \in 1..Len(expenses) :
       /\ expenses[k].id = last.id
       /\ expenses[j].originalId = expenses[k].originalId
       /\ expenses[k].installments = << [current |-> 2, total |-> MinInstallments] >>
       /\ expenses[j].installments = << [current |-> 1, total |-> 3] >>

\* C17: cardPayments holds at most one record of a (cardId, monthYear) pair
\* in every reachable state, also when two toggles of the pair are issued
\* before the state of the first is committed.
C17_OneRecordPerPair ==
  \A i, j \in 1..Len(cardPayments) :
    (cardPayments[i].cardId = cardPayments[j].cardId /\ cardPayments[i].monthYear = cardPayments[j].monthYear)
      => i = j

\* C18: a toggle of a pair creates the record with isPaid = TRUE when the
\* pair has none and flips the record otherwise, leaves every other pair as
\* it was, and inverts the status the Summary shows for the pair (so the
\* status after n toggles is TRUE exactly for odd n).
C18_ToggleFlipsPair ==
  [][ \A cardId \in CardIds, monthYear \in Months :
        ( /\ last'.op = "toggleCardPaid"
          /\ last'.paymentMethod = cardId
          /\ last'.monthYear = monthYear
          /\ toggleCardPaid(cardId, monthYear) )
        => LET before == FindPayment(cardPayments, cardId, monthYear)
               after == FindPayment(cardPayments', cardId, monthYear)
           IN  /\ before = << >> =>
                    after = <<[cardId |-> cardId, monthYear |-> monthYear, isPaid |-> TRUE]>>
               /\ before # << >> =>
                    /\ Len(cardPayments') = Len(cardPayments)
                    /\ after = <<[before[1] EXCEPT !.isPaid = ~before[1].isPaid]>>
               /\ \A c \in CardIds, m \in Months :
                    (c # cardId \/ m # monthYear) =>
                      /\ FindPayment(cardPayments', c, m) = FindPayment(cardPayments, c, m)
                      /\ isPaid(cardPayments', c, m) = isPaid(cardPayments, c, m)
               /\ isPaid(cardPayments', cardId, monthYear) = ~isPaid(cardPayments, cardId, monthYear)
    ]_vars

\* C19: for every month the Summary's total income is the sum of the income
\* values, its total expense is the sum of the resolved values that are
\* > 0, its balance is income minus expense (negative when expenses are
\* larger), and the Dashboard's cash-flow entry of the month has the same
\* total expense.
C19_TotalsAgree ==
  \A m \in Months :
    LET positives == SelectSeq([k \in 1..Len(expenses) |-> getExpenseValueForMonth(expenses[k], m)],
                               LAMBDA r : Positive(r.value))
    IN  /\ totalIncome(incomes, m) = SumValues([k \in 1..Len(incomes) |-> getIncomeValueForMonth(incomes[k], m)])
        /\ totalExpenses(expenses, m) = SumValues(ValuesOf(positives))
        /\ Add(balance(incomes, expenses, m), totalExpenses(expenses, m)) = totalIncome(incomes, m)
        /\ monthlyData(incomes, expenses, m).expense = totalExpenses(expenses, m)

\* C20: for every month each expense counted in the total is in exactly one
\* bucket (the card of its resolved payment method, or cash), the card
\* totals plus the cash total are the total expense, and an expense whose
\* payment method is neither cash nor a card is in the cash bucket; the
\* buckets of the Dashboard's card usage add up to the same total.
C20_BucketsCoverTotal ==
  \A m \in Months :
    LET counted == monthlyExpenses(expenses, m)
        cash == cashExpenses(expenses, m)
        InCard(e) == \E k \in 1..Len(cards) : \E j \in 1..Len(cardExpenses(expenses, cards[k].id, m)) :
                       cardExpenses(expenses, cards[k].id, m)[j].id = e.id
        InCash(e) == \E j \in 1..Len(cash) : cash[j].id = e.id
    IN  /\ \A i \in 1..Len(counted) : InCard(counted[i]) # InCash(counted[i])
        /\ \A i \in 1..Len(counted) :
             (counted[i].paymentMethod \notin OfferedMethods) => InCash(counted[i])
        /\ Add(SumValues(ValuesOf(cardTotals(expenses, cards, cardPayments, m))), SumValues(ValuesOf(cash)))
             = totalExpenses(expenses, m)
        /\ SumValues(ValuesOf(cardUsageData(expenses, cards, m))) = totalExpenses(expenses, m)

\* C21: for every month the totals by category hold, for each existing
\* category with expenses of nonzero value, the sum of the values of the
\* expenses carrying its id (two categories are never merged), and the
\* expenses whose categoryId matches no category are summed under 'Outros'.
C21_CategoryTotals ==
  \A m \in Months :
    LET data == categoryData(expenses, expenseCategories, m)
        NonZero(e) == Truthy(getExpenseValueForMonth(e, m).value)
        Total(exps) == SumValues([k \in 1..Len(exps) |-> getExpenseValueForMonth(exps[k], m).value])
        live == { expenseCategories[k].id : k \in 1..Len(expenseCategories) }
        orphans == SelectSeq(expenses, LAMBDA e : e.categoryId \notin live /\ NonZero(e))
    IN  /\ \A k \in 1..Len(expenseCategories) :
             LET own == SelectSeq(expenses, LAMBDA e : e.categoryId = expenseCategories[k].id /\ NonZero(e))
             IN  own # << >> =>
                   \E j \in 1..Len(data) :
                     data[j].name = expenseCategories[k].name /\ data[j].value = Total(own)
        /\ orphans # << >> =>
             \E j \in 1..Len(data) : data[j].name = "Outros" /\ data[j].value = Total(orphans)

C23_CountBelowOneIgnored ==
  \A k \in 1..Len(expenses) :
    /\ expenses[k].installmentValue.d # 0
    /\ expenses[k].installments # << >> => expenses[k].installments[1].total >= 1

\* C24: when syncDataWithCloud runs, automatically or by hand, with a local
\* copy (one that holds records) and a cloud row, the copy with the later
\* timestamp survives: a local
\* copy that is later stays and is pushed, it is never replaced by the older
\* row; a local copy that is older is replaced by the row.
C24_LastWriteWins ==
  [][ ( /\ last'.op = "sync"
        /\ HasKind(tasks, "sync") /\ ~HasKind(tasks', "sync")
        /\ ~isLocalEmpty(storage.data)
        /\ cloud.user_finance # << >> )
      => IF storage.lastUpdated > cloud.user_finance[1].updated_at
         THEN /\ FinanceData(incomes', expenses', cards') = FinanceData(incomes, expenses, cards)
              /\ last'.paymentMethod = "ok" => cloud'.user_finance[1].data = storage.data[1]
         ELSE FinanceData(incomes', expenses', cards') = cloud.user_finance[1].data
    ]_vars

\* C25: every change of the store is in localStorage at once; a change
\* clears the pending save of the change before it, so the pending save is
\* one and carries the current state, and what a save of a logged-in user
\* upserts is the state of the store; with a user logged in, a pending save
\* leads to an upsert of the latest state.
C25_DebouncedSave ==
  /\ [](/\ storage.data = <<FinanceData(incomes, expenses, cards)>>
        /\ Len(SelectSeq(tasks, LAMBDA t : t.kind = "save")) <= 1
        /\ \A k \in 1..Len(tasks) :
             tasks[k].kind = "save" => tasks[k].payload = <<FinanceData(incomes, expenses, cards)>>)
  /\ [][(last'.op = "save" /\ user /\ HasKind(tasks, "save") /\ ~HasKind(tasks', "save"))
          => cloud'.user_finance = <<[data |-> FinanceData(incomes, expenses, cards), updated_at |-> clock]>>]_vars
  /\ ((user /\ HasKind(tasks, "save"))
        ~> (/\ last.op = "save"
            /\ cloud.user_finance # << >>
            /\ cloud.user_finance[1].data = FinanceData(incomes, expenses, cards)))

\* a save of a logged-in user has upserted a state that holds an expense
C25_Witness ==
  /\ user
  /\ last.op = "save"
  /\ expenses # << >>
  /\ cloud.user_finance # << >>
  /\ cloud.user_finance[1].data = FinanceData(incomes, expenses, cards)
  /\ cloud.user_finance[1].updated_at > storage.lastUpdated

\* C26: with a user logged in, every postgres_changes event leads to a
\* reload of the local arrays: the callback of the event starts loadData.
C26_RefreshOnChange ==
  [][ (user /\ last'.op = "event" /\ HasKind(tasks, "event") /\ ~HasKind(tasks', "event"))
        => \E k \in 1..Len(tasks') : tasks'[k] = Task("load", FALSE, <<Step("event", 0, << >>)>>)
    ]_vars

\* C29: isSaving is TRUE in every state in which a cloud write started by a
\* mutation is in flight, two overlapping mutations and a failed write
\* included, and FALSE once every mutation is over.
C29_SavingWhileInFlight ==
  /\ HasKind(tasks, "write") => isSaving
  /\ (\A k \in 1..Len(tasks) : tasks[k].kind = "load" => tasks[k].payload[1].op # "write")
       /\ ~HasKind(tasks, "write") => ~isSaving

TaskSet(tsks) == { tsks[k] : k \in 1..Len(tsks) }

Governs(h, monthYear, m) ==
  /\ MonthIndex(monthYear) <= MonthIndex(m)
  /\ \A j \in 1..Len(h) :
       MonthIndex(monthYear) < MonthIndex(h[j].monthYear) => MonthIndex(m) < MonthIndex(h[j].monthYear)

HasEarlier(h, monthYear) == \E j \in 1..Len(h) : MonthIndex(h[j].monthYear) < MonthIndex(monthYear)

IncomePushOps == {"updateFixedIncomeValue", "updateFixedIncomeValue/overwrite"}

ExpensePushOps == {"updateFixedExpenseValue", "updateFixedExpenseValue/overwrite"}

\* C27 as stated: a push for month M with updateFixedIncomeValue or
\* updateFixedExpenseValue changes what a month resolves to only for the
\* months from M up to the next later entry; every month before M and every
\* month at or after the next later entry resolves as before the push.
C27_PushFrame ==
  [][ /\ \A k \in 1..Len(incomes), m \in Months :
           (/\ last'.op \in IncomePushOps
            /\ last'.id = incomes[k].id
            /\ incomes[k].type = "fixed"
            /\ ~Governs(incomes[k].valueHistory, last'.monthYear, m))
             => getIncomeValueForMonth(incomes'[k], m) = getIncomeValueForMonth(incomes[k], m)
      /\ \A k \in 1..Len(expenses), m \in Months :
           (/\ last'.op \in ExpensePushOps
            /\ last'.id = expenses[k].id
            /\ expenses[k].type = "fixed"
            /\ ~Governs(expenses[k].valueHistory, last'.monthYear, m))
             => getExpenseValueForMonth(expenses'[k], m) = getExpenseValueForMonth(expenses[k], m)
    ]_vars

\* C27 amended: a month at or after the next later entry resolves as before
\* the push; a month before M resolves as before when the history holds an
\* entry earlier than M, and to the pushed entry (the earliest-entry
\* fallback) when it holds none.
C27_PushFrameWithFallback ==
  [][ /\ \A k \in 1..Len(incomes), m \in Months :
           (/\ last'.op \in IncomePushOps
            /\ last'.id = incomes[k].id
            /\ incomes[k].type = "fixed"
            /\ ~Governs(incomes[k].valueHistory, last'.monthYear, m))
             => IF MonthIndex(m) < MonthIndex(last'.monthYear) /\ ~HasEarlier(incomes[k].valueHistory, last'.monthYear)
                THEN getIncomeValueForMonth(incomes'[k], m) = last'.value
                ELSE getIncomeValueForMonth(incomes'[k], m) = getIncomeValueForMonth(incomes[k], m)
      /\ \A k \in 1..Len(expenses), m \in Months :
           (/\ last'.op \in ExpensePushOps
            /\ last'.id = expenses[k].id
            /\ expenses[k].type = "fixed"
            /\ ~Governs(expenses[k].valueHistory, last'.monthYear, m))
             => IF MonthIndex(m) < MonthIndex(last'.monthYear) /\ ~HasEarlier(expenses[k].valueHistory, last'.monthYear)
                THEN getExpenseValueForMonth(expenses'[k], m)
                       = [ value |-> last'.value,
                           paymentMethod |-> IF last'.paymentMethod # "" THEN last'.paymentMethod
                                             ELSE expenses[k].paymentMethod ]
                ELSE getExpenseValueForMonth(expenses'[k], m) = getExpenseValueForMonth(expenses[k], m)
    ]_vars

\* a push for a month earlier than the only other entry, with another
\* value, and a month of the window before the pushed month
C27_Witness ==
  /\ last.op = "updateFixedIncomeValue"
  /\ \E k \in 1..Len(incomes), m \in Months :
       LET h == incomes[k].valueHistory
       IN  /\ incomes[k].id = last.id
           /\ Len(h) = 2
           /\ h[1].monthYear = last.monthYear
           /\ h[1].value # h[2].value
           /\ MonthIndex(m) < MonthIndex(last.monthYear)
           /\ getIncomeValueForMonth(incomes[k], m) = last.value

\* C28: while an upsert of the migration has returned an error, the legacy
\* user_finance row is still there and the migration flag is unset; the
\* row is deleted and the flag set only after every upsert succeeded.
C28_MigrateAfterSuccess ==
  cloud.failed # {} => (cloud.user_finance # << >> /\ ~storage.migrated)

====
